---- MODULE Spec2Model ----
(***************************************************************************)
(* Node-Zero-Synapse: the code graph (graph store backends, CodeGraph,     *)
(* blast radius), the blast-radius HTTP handlers, the entity registry, the *)
(* call resolver and the relationship extractor.                           *)
(*                                                                         *)
(* Strings that the code inspects (ids, paths, call expressions) are       *)
(* sequences of one-character strings, so that startswith, split, `in`     *)
(* and f-string concatenation are computed as Python computes them.        *)
(* Floats in [0, 1] are integers in thousandths (0.5 is 500).              *)
(***************************************************************************)
EXTENDS Integers, Sequences, FiniteSets, TLC

\* ------------------------------------------------------------------------
\* Bounds
\* ------------------------------------------------------------------------

\* add_relationship calls in one run of the graph specification
MaxRels == 2

\* functions parsed from the file a.py
MaxFuncs == 2

\* call expressions in the body of one function
MaxCalls == 2

\* ------------------------------------------------------------------------
\* Python string primitives on character sequences
\* ------------------------------------------------------------------------

Min(a, b) == IF a <= b THEN a ELSE b

Max(a, b) == IF a >= b THEN a ELSE b

Range(s) == {s[i] : i \in DOMAIN s}

StartsWith(s, p) == Len(p) <= Len(s) /\ SubSeq(s, 1, Len(p)) = p

EndsWith(s, p) == Len(p) <= Len(s) /\ SubSeq(s, Len(s) - Len(p) + 1, Len(s)) = p

\* Python's `p in s` for strings
Contains(s, p) == \E i \in 1..(Len(s) - Len(p) + 1) : SubSeq(s, i, i + Len(p) - 1) = p

LowerChar(c) ==
    CASE c = "A" -> "a" [] c = "B" -> "b" [] c = "C" -> "c" [] c = "D" -> "d"
      [] c = "T" -> "t" [] c = "E" -> "e" [] c = "S" -> "s"
      [] OTHER -> c

Lower(s) == [i \in DOMAIN s |-> LowerChar(s[i])]

\* os.path.basename for forward-slash paths: the part after the last "/"
Basename(s) ==
    LET slashes == {i \in DOMAIN s : s[i] = "/"}
    IN  IF slashes = {} THEN s
        ELSE SubSeq(s, (CHOOSE i \in slashes : \A j \in slashes : j <= i) + 1, Len(s))

\* ------------------------------------------------------------------------
\* The graph specification: inputs
\* ------------------------------------------------------------------------

IdA == <<"a">>

IdB == <<"b">>

IdTest == <<"t", "e", "s", "t">>

\* an id that is never added to the graph
IdGhost == <<"z">>

GraphIds == {IdA, IdB, IdTest}

Targets == GraphIds \cup {IdGhost}

\* RelationType values that add_relationship is driven with
RelTypes == {"CALLS", "INHERITS", "USES_TYPE"}

FileA == <<"a", ".", "p", "y">>

FileB == <<"s", "/", "b", ".", "p", "y">>

\* metadata["file"] that build_dependency_graph records for an entity
FileOf(id) == IF id = IdA THEN FileA ELSE FileB

VARIABLES
    nxNodes,          \* NetworkXStore._graph: nodes
    nxEdges,          \* NetworkXStore._graph: (u, v) -> attribute dict
    nepV,             \* NeptuneStore: "code" vertices (their id property)
    nepE,             \* NeptuneStore: "depends_on" edges, in creation order
    entity_metadata,  \* CodeGraph.entity_metadata
    relationships,    \* CodeGraph.relationships
    git_risk,         \* graph_db["git_risk"]
    parsed_files,     \* RelationshipExtractor.parsed_files
    registry,         \* RelationshipExtractor.registry (EntityRegistry)
    import_cache,     \* CallResolver._import_cache
    graph,            \* RelationshipExtractor.graph.relationships
    constructed,      \* RelationshipExtractor.__init__ has run
    cursor,           \* functions whose relationships have been extracted
    config,           \* RuleEngine.config (ArchitectureConfig)
    layer_cache,      \* RuleEngine._layer_cache
    violations,       \* ArchitectureValidator._violations
    warnings,         \* ArchitectureValidator._warnings
    repo,             \* the repository on disk: its .py files and their imports
    baseline,         \* DriftDetector._baseline
    cached_analyzers, \* git_risk_analyzer._cached_analyzers
    analyzers_built,  \* GitRiskAnalyzer objects constructed so far
    history,          \* the commits of the git repository, oldest first
    calculator,       \* the ExpertiseScoreCalculator of the blame analyzer
    commits_by_developer, \* commits of the target file, per developer email
    by_file,          \* InMemoryStore._by_file: file path -> scores, best first
    blame_analyzer,   \* the SmartBlameAnalyzer in use (smart_git._analyzer)
    sources,          \* the .py files os.walk yields: path, readability, syntax tree
    last              \* the last request served and its outcome

graphVars == <<nxNodes, nxEdges, nepV, nepE, entity_metadata, relationships, git_risk>>

extractVars == <<parsed_files, registry, import_cache, graph, constructed, cursor>>

govVars == <<config, layer_cache, violations, warnings, repo, baseline>>

riskVars == <<cached_analyzers, analyzers_built, history>>

blameVars == <<calculator, commits_by_developer, by_file, blame_analyzer>>

parserVars == <<sources>>

serviceVars == <<govVars, riskVars, blameVars, parserVars>>

vars == <<graphVars, extractVars, serviceVars, last>>


\* ------------------------------------------------------------------------
\* NetworkXStore (networkx.DiGraph: one edge per ordered pair)
\* ------------------------------------------------------------------------

NxAddNode(nodes, n) == nodes \cup {n}

\* DiGraph.add_edge(u, v, **attrs): the endpoints are created when missing; an
\* existing (u, v) entry keeps its dict and attrs are written over it
NxAddEdgeAttrs(edges, u, v, attrs) ==
    [p \in (DOMAIN edges) \cup {<<u, v>>} |-> IF p = <<u, v>> THEN attrs ELSE edges[p]]

NxHasNode(n) == n \in nxNodes

NxHasEdge(u, v) == <<u, v>> \in DOMAIN nxEdges

NxNumberOfNodes == Cardinality(nxNodes)

NxNumberOfEdges == Cardinality(DOMAIN nxEdges)

NxPredecessors(n) == {u \in nxNodes : <<u, n>> \in DOMAIN nxEdges}

NxSuccessors(n) == {v \in nxNodes : <<n, v>> \in DOMAIN nxEdges}

NxInDegree(n) == Cardinality(NxPredecessors(n))

NxOutDegree(n) == Cardinality(NxSuccessors(n))

\* networkx.ancestors: breadth-first search over predecessors with a seen set,
\* the source itself removed from the result
RECURSIVE NxBfs(_, _)
NxBfs(frontier, seen) ==
    IF frontier = {} THEN seen
    ELSE LET next == (UNION {NxPredecessors(v) : v \in frontier}) \ seen
         IN  NxBfs(next, seen \cup next)

NxAncestors(n) == NxBfs({n}, {n}) \ {n}

\* density as the fraction num/den; 0 for fewer than two nodes
NxDensity ==
    IF NxNumberOfNodes <= 1 THEN [num |-> 0, den |-> 1]
    ELSE [num |-> NxNumberOfEdges, den |-> NxNumberOfNodes * (NxNumberOfNodes - 1)]

\* ------------------------------------------------------------------------
\* NeptuneStore (Gremlin property graph: every addE creates an edge)
\* ------------------------------------------------------------------------

\* add_node: fold().coalesce(unfold(), addV) creates the vertex only when missing
NepAddNode(vs, n) == vs \cup {n}

\* add_edge: add_node for both ends, then addE("depends_on") unconditionally
NepAddEdge(es, u, v, attrs) == Append(es, [src |-> u, dst |-> v, attrs |-> attrs])

NepHasNode(n) == n \in nepV

NepEdgesBetween(u, v) == SelectSeq(nepE, LAMBDA e : e.src = u /\ e.dst = v)

NepHasEdge(u, v) == Len(NepEdgesBetween(u, v)) > 0

NepNumberOfNodes == Cardinality(nepV)

NepNumberOfEdges == Len(nepE)

NepInEdges(n) == SelectSeq(nepE, LAMBDA e : e.dst = n)

NepOutEdges(n) == SelectSeq(nepE, LAMBDA e : e.src = n)

\* in_("depends_on").values("id").toList(): one element per incoming edge
NepPredecessors(n) == [i \in DOMAIN NepInEdges(n) |-> NepInEdges(n)[i].src]

\* out("depends_on").values("id").toList(): one element per outgoing edge
NepSuccessors(n) == [i \in DOMAIN NepOutEdges(n) |-> NepOutEdges(n)[i].dst]

NepInDegree(n) == Len(NepInEdges(n))

NepOutDegree(n) == Len(NepOutEdges(n))

\* ancestors() builds its traversal with `__.in_(...)`, but `__` is bound in
\* this module only by function-local imports inside add_node, add_edge,
\* has_edge, get_edge_data and descendants; in ancestors the name is unbound and
\* the call raises NameError before any traversal is submitted
NepAncestors(n) == [raised |-> "NameError", value |-> <<>>]

NepDensity ==
    IF NepNumberOfNodes = 0 THEN [num |-> 0, den |-> 1]
    ELSE IF NepNumberOfNodes > 1
         THEN [num |-> NepNumberOfEdges, den |-> NepNumberOfNodes * (NepNumberOfNodes - 1)]
         ELSE [num |-> 0, den |-> 1]

\* ------------------------------------------------------------------------
\* GitRiskAnalyzer queries (read side; the analyzer is a value once scanned)
\* ------------------------------------------------------------------------

\* _find_metrics: exact key, then suffix either way, then equal basenames
FindMetrics(an, file_path) ==
    LET keys == DOMAIN an.file_metrics
        suffix == {k \in keys : EndsWith(k, file_path) \/ EndsWith(file_path, k)}
        base == {k \in keys : Basename(k) = Basename(file_path)}
    IN  IF file_path \in keys THEN {an.file_metrics[file_path]}
        ELSE IF suffix # {} THEN {an.file_metrics[k] : k \in suffix}
        ELSE {an.file_metrics[k] : k \in base}

\* get_change_frequency_risk, in thousandths, for one matched metrics record
ChangeFrequencyOf(an, m) ==
    LET frequency_score == Min((m.change_count * 1000) \div Max(an.max_change_count, 1), 1000)
    IN  Min((frequency_score * 600 + m.recent_change_ratio * 400) \div 1000, 1000)

\* get_change_frequency_risk: the values the call may return (the first match
\* of a dict iteration; one value when at most one key matches)
GetChangeFrequencyRisk(an, file_path) ==
    IF FindMetrics(an, file_path) = {} THEN {300}
    ELSE {ChangeFrequencyOf(an, m) : m \in FindMetrics(an, file_path)}

BusFactorOf(m) ==
    IF m.unique_authors <= 1 THEN 1000
    ELSE IF m.unique_authors = 2 THEN 700
    ELSE IF m.unique_authors = 3 THEN 400
    ELSE IF m.unique_authors = 4 THEN 200
    ELSE 100

GetBusFactorRisk(an, file_path) ==
    IF FindMetrics(an, file_path) = {} THEN {500}
    ELSE {BusFactorOf(m) : m \in FindMetrics(an, file_path)}

\* the analyzer load_data caches when the repository has history
RepoAnalyzer ==
    [present |-> TRUE,
     max_change_count |-> 4,
     file_metrics |-> (FileA :> [change_count |-> 4, unique_authors |-> 1,
                                 recent_change_ratio |-> 1000]
                    @@ FileB :> [change_count |-> 2, unique_authors |-> 3,
                                 recent_change_ratio |-> 500])]

\* graph_db["git_risk"] = None
NoAnalyzer == [present |-> FALSE]

\* ------------------------------------------------------------------------
\* CodeGraph (over the NetworkX backend, the factory's default)
\* ------------------------------------------------------------------------

Relationship(source, target, rel_type) ==
    [source |-> source, target |-> target, rel_type |-> rel_type, weight |-> 1000]

\* the keyword arguments add_relationship passes to store.add_edge
EdgeAttrs(rel) == [type |-> rel.rel_type, weight |-> rel.weight]

\* get_callers: predecessors whose (single) edge dict has type CALLS
GetCallers(entity_id) ==
    {pred \in NxPredecessors(entity_id) : nxEdges[<<pred, entity_id>>].type = "CALLS"}

\* _collect_upstream: the for-loop over predecessors `todo` of one entity,
\* threading the shared `collected` set through the recursive calls
RECURSIVE CollectUpstreamLoop(_, _)
CollectUpstreamLoop(todo, collected) ==
    IF todo = {} THEN collected
    ELSE LET pred == CHOOSE p \in todo : TRUE
             after == IF pred \in collected THEN collected
                      ELSE CollectUpstreamLoop(NxPredecessors(pred), collected \cup {pred})
         IN  CollectUpstreamLoop(todo \ {pred}, after)

\* mutant: the recursion into each predecessor is lost
CollectUpstreamDirectOnly(entity_id, collected) ==
    collected \cup NxPredecessors(entity_id)

CollectUpstream(entity_id, collected) ==
    CollectUpstreamLoop(NxPredecessors(entity_id), collected)

\* 'test' in a.lower() or a.startswith('test_')
IsAffectedTest(a) ==
    Contains(Lower(a), <<"t", "e", "s", "t">>) \/ StartsWith(a, <<"t", "e", "s", "t", "_">>)

\* _categorize_affected
CategorizeAffected(target, affected) ==
    LET linked(entity, t) ==
            \E succ \in NxSuccessors(entity) :
                /\ succ = target \/ succ \in affected
                /\ nxEdges[<<entity, succ>>].type = t
    IN  [callers |-> {e \in affected : linked(e, "CALLS")},
         inheritors |-> {e \in affected : linked(e, "INHERITS")},
         type_users |-> {e \in affected : linked(e, "USES_TYPE")}]

\* _calculate_enhanced_risk_factors: the factors that depend only on the graph
\* and the affected sets (complexity and betweenness centrality, and with them
\* the weighted total, are not modelled for a known target)
CalculateEnhancedRiskFactors(target, direct_callers, indirect_callers, affected_tests) ==
    LET in_deg == IF NxHasNode(target) THEN NxInDegree(target) ELSE 0
        out_deg == IF NxHasNode(target) THEN NxOutDegree(target) ELSE 0
        total_dependents == Cardinality(direct_callers) + Cardinality(indirect_callers)
    IN  [test_coverage_risk |->
             IF affected_tests = {} THEN 1000
             ELSE Max(0, 1000 - Cardinality(affected_tests) * 300),
         dependency_risk |-> Min(total_dependents * 100, 1000),
         change_frequency_risk |-> Min((in_deg + out_deg) * 50, 1000),
         bus_factor_risk |-> 500]

\* the ImpactAssessment returned for a target that is not a node; risk_factors
\* is RiskFactors() with its dataclass defaults
ZeroAssessment(target) ==
    [target |-> target, direct_callers |-> {}, indirect_callers |-> {},
     affected_tests |-> {}, risk_score |-> 0, affected_by_type |-> <<>>,
     blast_radius |-> 0,
     risk_factors |-> [test_coverage_risk |-> 500, dependency_risk |-> 0,
                       change_frequency_risk |-> 0, bus_factor_risk |-> 500]]

\* CodeGraph.calculate_blast_radius(target, complexity_data=None)
CalculateBlastRadius(target) ==
    IF ~NxHasNode(target) THEN ZeroAssessment(target)
    ELSE LET direct_callers == GetCallers(target)
             all_affected == CollectUpstream(target, {}) \ {target}
             indirect_callers == {a \in all_affected : a \notin direct_callers}
             affected_tests == {a \in all_affected : IsAffectedTest(a)}
         IN  [target |-> target,
              direct_callers |-> direct_callers,
              indirect_callers |-> indirect_callers,
              affected_tests |-> affected_tests,
              affected_by_type |-> CategorizeAffected(target, all_affected),
              risk_factors |-> CalculateEnhancedRiskFactors(
                                   target, direct_callers, indirect_callers, affected_tests),
              blast_radius |-> Cardinality(all_affected)]

\* a Python call of calculate_blast_radius with the given keyword names: the
\* signature is (self, target, complexity_data=None), any other keyword is a
\* TypeError raised before the body runs
CallCalculateBlastRadius(target, keywords) ==
    IF keywords \subseteq {"target", "complexity_data"}
    THEN [raised |-> "none", value |-> CalculateBlastRadius(target)]
    ELSE [raised |-> "TypeError"]

\* ------------------------------------------------------------------------
\* HTTP handlers of api/main.py that serve blast-radius requests
\* ------------------------------------------------------------------------

\* GET /blast-radius/{function_name}
GetBlastRadiusResponse(function_name) ==
    IF ~NxHasNode(function_name) THEN [status |-> 404]
    ELSE [status |-> 200,
          target |-> function_name,
          blast_radius_score |-> Cardinality(NxAncestors(function_name)),
          affected_functions |-> NxAncestors(function_name)]

\* GET /blast-radius/{function_name}/explain, up to the impact assessment it
\* merges into its answer; an exception escaping the handler is a 500
ExplainBlastRadiusResponse(function_name) ==
    IF ~NxHasNode(function_name) THEN [status |-> 404]
    ELSE LET impact == CallCalculateBlastRadius(function_name, {"git_risk_analyzer"})
         IN  IF impact.raised # "none" THEN [status |-> 500, raised |-> impact.raised]
             ELSE [status |-> 200, impact_assessment |-> impact.value]

\* ------------------------------------------------------------------------
\* Python str.split and dict primitives
\* ------------------------------------------------------------------------

\* the first index at which p occurs in s, 0 when it does not occur
IndexOf(s, p) ==
    LET hits == {i \in 1..(Len(s) - Len(p) + 1) : SubSeq(s, i, i + Len(p) - 1) = p}
    IN  IF hits = {} THEN 0 ELSE CHOOSE i \in hits : \A j \in hits : i <= j

\* s.split(p)[0]
Before(s, p) == IF IndexOf(s, p) = 0 THEN s ELSE SubSeq(s, 1, IndexOf(s, p) - 1)

\* s.split(p, 1)[1], for s that contains p
After(s, p) == SubSeq(s, IndexOf(s, p) + Len(p), Len(s))

EmptyDict == [k \in {} |-> 0]

\* d[k] = v
DictPut(d, k, v) == [x \in (DOMAIN d) \cup {k} |-> IF x = k THEN v ELSE d[x]]

\* d.get(k, default)
DictGet(d, k, default) == IF k \in DOMAIN d THEN d[k] ELSE default

\* ------------------------------------------------------------------------
\* Entities (None is the empty string: the code only tests truthiness)
\* ------------------------------------------------------------------------

FunctionEntity(name, file_path, parent_class, calls, decorators, start_line) ==
    [kind |-> "function", name |-> name, file_path |-> file_path,
     parent_class |-> parent_class, calls |-> calls, decorators |-> decorators,
     bases |-> <<>>, start_line |-> start_line]

ClassEntity(name, file_path, bases, start_line) ==
    [kind |-> "class", name |-> name, file_path |-> file_path,
     parent_class |-> <<>>, calls |-> <<>>, decorators |-> <<>>,
     bases |-> bases, start_line |-> start_line]

\* import X as alias / from X import names / import X
ImportEntity(module, imported_names, alias) ==
    [module |-> module, imported_names |-> imported_names, alias |-> alias]

ParsedFile(file_path, functions, classes, imports) ==
    [file_path |-> file_path, functions |-> functions, classes |-> classes,
     imports |-> imports]

\* FunctionEntity.unique_id and ClassEntity.unique_id
UniqueId(entity) ==
    IF entity.kind = "function" /\ entity.parent_class # <<>>
    THEN entity.file_path \o <<":">> \o entity.parent_class \o <<".">> \o entity.name
    ELSE entity.file_path \o <<":">> \o entity.name

\* hasattr(entity, 'parent_class'): FunctionEntity has the field, ClassEntity not
HasParentClassAttr(entity) == entity.kind = "function"

\* ------------------------------------------------------------------------
\* EntityRegistry
\* ------------------------------------------------------------------------

EmptyRegistry ==
    [entities_by_id |-> EmptyDict, entities_by_name |-> EmptyDict,
     classes |-> EmptyDict, entities_by_file |-> EmptyDict]

\* EntityRegistry.register
Register(reg, entity) ==
    [entities_by_id |-> DictPut(reg.entities_by_id, UniqueId(entity), entity),
     entities_by_name |->
         DictPut(reg.entities_by_name, entity.name,
                 Append(DictGet(reg.entities_by_name, entity.name, <<>>), entity)),
     entities_by_file |->
         DictPut(reg.entities_by_file, entity.file_path,
                 Append(DictGet(reg.entities_by_file, entity.file_path, <<>>), entity)),
     classes |->
         IF entity.kind = "class" THEN DictPut(reg.classes, entity.name, entity)
         ELSE reg.classes]

RECURSIVE RegisterAll(_, _)
RegisterAll(reg, entities) ==
    IF entities = <<>> THEN reg
    ELSE RegisterAll(Register(reg, Head(entities)), Tail(entities))

\* build_registry_from_parsed_files: per file, its functions, then its classes
RECURSIVE RegisterFiles(_, _)
RegisterFiles(reg, pfs) ==
    IF pfs = <<>> THEN reg
    ELSE RegisterFiles(
             RegisterAll(RegisterAll(reg, Head(pfs).functions), Head(pfs).classes),
             Tail(pfs))

BuildRegistryFromParsedFiles(pfs) == RegisterFiles(EmptyRegistry, pfs)

FindByName(reg, name) == DictGet(reg.entities_by_name, name, <<>>)

\* find_by_id, as the truth value the resolver tests
FindById(reg, unique_id) == unique_id \in DOMAIN reg.entities_by_id

\* find_in_file: the entities of the file with that name, in order (the first
\* one is returned, None when there is none)
FindInFile(reg, file_path, name) ==
    SelectSeq(DictGet(reg.entities_by_file, file_path, <<>>), LAMBDA e : e.name = name)

\* ------------------------------------------------------------------------
\* ImportMapping
\* ------------------------------------------------------------------------

EmptyImportMapping ==
    [module_aliases |-> EmptyDict, name_imports |-> EmptyDict, star_imports |-> <<>>]

RECURSIVE AddImportedNames(_, _, _)
AddImportedNames(mapping, module, names) ==
    IF names = <<>> THEN mapping
    ELSE LET name == Head(names)
             full_path == IF module # <<>> THEN module \o <<".">> \o name ELSE name
             next == IF name = <<"*">>
                     THEN [mapping EXCEPT !.star_imports = Append(@, module)]
                     ELSE [mapping EXCEPT !.name_imports = DictPut(@, name, full_path)]
         IN  AddImportedNames(next, module, Tail(names))

\* ImportMapping.from_imports
RECURSIVE FromImportsLoop(_, _)
FromImportsLoop(mapping, imports) ==
    IF imports = <<>> THEN mapping
    ELSE LET imp == Head(imports)
             next ==
                 IF imp.alias # <<>>
                 THEN [mapping EXCEPT !.module_aliases = DictPut(@, imp.alias, imp.module)]
                 ELSE IF imp.imported_names # <<>>
                 THEN AddImportedNames(mapping, imp.module, imp.imported_names)
                 ELSE [mapping EXCEPT !.module_aliases =
                           DictPut(@, Before(imp.module, <<".">>), Before(imp.module, <<".">>))]
         IN  FromImportsLoop(next, Tail(imports))

FromImports(imports) == FromImportsLoop(EmptyImportMapping, imports)

\* RelationshipExtractor.__init__: set_imports for every parsed file
RECURSIVE SetImportsAll(_, _)
SetImportsAll(cache, pfs) ==
    IF pfs = <<>> THEN cache
    ELSE SetImportsAll(DictPut(cache, Head(pfs).file_path, FromImports(Head(pfs).imports)),
                       Tail(pfs))

\* ------------------------------------------------------------------------
\* CallResolver (confidence in thousandths; resolved_target None is <<>>)
\* ------------------------------------------------------------------------

ResolvedCall(original_call, resolved_target, resolution_type, confidence) ==
    [original_call |-> original_call, resolved_target |-> resolved_target,
     resolution_type |-> resolution_type, confidence |-> confidence]

Unresolved(call_str) == ResolvedCall(call_str, <<>>, "unresolved", 0)

\* the candidates that are methods of the given class, in candidate order
MethodsOf(candidates, class_name) ==
    SelectSeq(candidates, LAMBDA e : HasParentClassAttr(e) /\ e.parent_class = class_name)

\* for base in bases: for entity in candidates: the first method of that base
RECURSIVE FirstInherited(_, _)
FirstInherited(bases, candidates) ==
    IF bases = <<>> THEN <<>>
    ELSE IF MethodsOf(candidates, Head(bases)) # <<>>
         THEN <<MethodsOf(candidates, Head(bases))[1]>>
         ELSE FirstInherited(Tail(bases), candidates)

\* _resolve_self_call
ResolveSelfCall(reg, call_str, parent_class, file_path) ==
    LET method_name == Before(After(call_str, <<".">>), <<"(">>)
        target_id == file_path \o <<":">> \o parent_class \o <<".">> \o method_name
        bases == IF parent_class \in DOMAIN reg.classes
                 THEN reg.classes[parent_class].bases ELSE <<>>
        inherited == FirstInherited(bases, FindByName(reg, method_name))
    IN  IF parent_class # <<>> /\ FindById(reg, target_id)
        THEN ResolvedCall(call_str, target_id, "method", 1000)
        ELSE IF parent_class # <<>> /\ inherited # <<>>
        THEN ResolvedCall(call_str, UniqueId(inherited[1]), "inherited_method", 900)
        ELSE Unresolved(call_str)

\* _resolve_super_call
ResolveSuperCall(reg, call_str, parent_class, file_path) ==
    LET method_name ==
            IF Contains(call_str, <<"(", ")", ".">>)
            THEN Before(After(call_str, <<"(", ")", ".">>), <<"(">>)
            ELSE <<"_", "_", "i", "n", "i", "t", "_", "_">>
        bases == IF parent_class \in DOMAIN reg.classes
                 THEN reg.classes[parent_class].bases ELSE <<>>
        found == IF bases = <<>> THEN <<>>
                 ELSE MethodsOf(FindByName(reg, method_name), bases[1])
    IN  IF parent_class # <<>> /\ found # <<>>
        THEN ResolvedCall(call_str, UniqueId(found[1]), "super", 950)
        ELSE Unresolved(call_str)

\* _resolve_instantiation
ResolveInstantiation(reg, call_str) ==
    IF call_str \in DOMAIN reg.classes
    THEN ResolvedCall(call_str, UniqueId(reg.classes[call_str]), "instantiation", 1000)
    ELSE Unresolved(call_str)

\* _resolve_qualified_call
ResolveQualifiedCall(reg, call_str, imports, file_path) ==
    LET first_part == Before(call_str, <<".">>)
        rest == Before(After(call_str, <<".">>), <<"(">>)
        candidates == FindByName(reg, rest)
        full_module == imports.module_aliases[first_part]
        in_module == SelectSeq(candidates,
                         LAMBDA e : Contains(e.file_path, full_module)
                                    \/ Contains(UniqueId(e), full_module))
    IN  IF first_part \in DOMAIN imports.module_aliases
        THEN IF in_module # <<>>
             THEN ResolvedCall(call_str, UniqueId(in_module[1]), "import_alias", 900)
             ELSE ResolvedCall(call_str, full_module \o <<".">> \o rest,
                               "external_module", 700)
        ELSE IF candidates # <<>>
        THEN ResolvedCall(call_str, UniqueId(candidates[1]), "object_method", 600)
        ELSE Unresolved(call_str)

\* _resolve_direct_call
ResolveDirectCall(reg, call_str, imports, file_path) ==
    LET func_name == Before(call_str, <<"(">>)
        candidates == FindByName(reg, func_name)
        local == FindInFile(reg, file_path, func_name)
    IN  IF func_name \in DOMAIN imports.name_imports
        THEN IF candidates # <<>>
             THEN ResolvedCall(call_str, UniqueId(candidates[1]), "import", 900)
             ELSE ResolvedCall(call_str, imports.name_imports[func_name],
                               "external_import", 700)
        ELSE IF local # <<>>
        THEN ResolvedCall(call_str, UniqueId(local[1]), "direct", 1000)
        ELSE IF candidates # <<>>
        THEN ResolvedCall(call_str, UniqueId(candidates[1]), "global", 800)
        ELSE IF func_name \in DOMAIN reg.classes
        THEN ResolveInstantiation(reg, func_name)
        ELSE Unresolved(call_str)

\* CallResolver.resolve
Resolve(reg, cache, call_str, context) ==
    LET file_path == context.file_path
        parent_class == context.parent_class
        imports == DictGet(cache, file_path, EmptyImportMapping)
    IN  IF StartsWith(call_str, <<"s", "e", "l", "f", ".">>)
        THEN ResolveSelfCall(reg, call_str, parent_class, file_path)
        ELSE IF StartsWith(call_str, <<"s", "u", "p", "e", "r", "(">>)
        THEN ResolveSuperCall(reg, call_str, parent_class, file_path)
        ELSE IF call_str \in DOMAIN reg.classes
        THEN ResolveInstantiation(reg, call_str)
        ELSE IF Contains(call_str, <<".">>)
        THEN ResolveQualifiedCall(reg, call_str, imports, file_path)
        ELSE ResolveDirectCall(reg, call_str, imports, file_path)

\* ------------------------------------------------------------------------
\* RelationshipExtractor
\* ------------------------------------------------------------------------

\* a Relationship as the extractor builds it; resolution_type is the entry of
\* its metadata, "" when the metadata has no such entry
ExtractedRelationship(source, target, rel_type, weight, resolution_type) ==
    [source |-> source, target |-> target, rel_type |-> rel_type, weight |-> weight,
     resolution_type |-> resolution_type]

\* mutant: an unresolved call is recorded with the resolver's confidence
CallRelationshipResolverWeight(reg, cache, call, func) ==
    LET resolved == Resolve(reg, cache, call, func)
    IN  IF resolved.resolved_target # <<>>
        THEN ExtractedRelationship(
                 UniqueId(func), resolved.resolved_target,
                 IF resolved.resolution_type = "instantiation" THEN "INSTANTIATES" ELSE "CALLS",
                 resolved.confidence, resolved.resolution_type)
        ELSE ExtractedRelationship(UniqueId(func), call, "CALLS", resolved.confidence,
                                   "unresolved")

\* _extract_function_relationships: the body of the loop over func.calls
CallRelationship(reg, cache, call, func) ==
    LET resolved == Resolve(reg, cache, call, func)
    IN  IF resolved.resolved_target # <<>>
        THEN ExtractedRelationship(
                 UniqueId(func), resolved.resolved_target,
                 IF resolved.resolution_type = "instantiation" THEN "INSTANTIATES" ELSE "CALLS",
                 resolved.confidence, resolved.resolution_type)
        ELSE ExtractedRelationship(UniqueId(func), call, "CALLS", 500, "unresolved")

\* _extract_function_relationships: the calls, then the decorators (the parsed
\* functions here carry no annotations, so no type usage is extracted)
ExtractFunctionRelationships(reg, cache, func) ==
    [i \in DOMAIN func.calls |-> CallRelationship(reg, cache, func.calls[i], func)]
    \o [i \in DOMAIN func.decorators |->
           ExtractedRelationship(func.decorators[i], UniqueId(func), "DECORATES", 1000, "")]

\* _extract_imports: the metadata of the first Relationship reads
\* imp.import_type.value, and import_type is the str "unknown" the parser left
\* there, so the first import raises AttributeError before anything is added;
\* extract_all calls this before the functions of the file
ExtractImportsOutcome(pf) ==
    IF pf.imports = <<>> THEN [raised |-> "none", emitted |-> <<>>]
    ELSE [raised |-> "AttributeError", emitted |-> <<>>]

\* ------------------------------------------------------------------------
\* The graph specification: both backends receive the CodeGraph's store calls
\* ------------------------------------------------------------------------

\* no graph yet: the state before build_dependency_graph
EmptyGraph ==
    /\ nxNodes = {}
    /\ nxEdges = [p \in {} |-> 0]
    /\ nepV = {}
    /\ nepE = <<>>
    /\ entity_metadata = [e \in {} |-> 0]
    /\ relationships = <<>>
    /\ git_risk = NoAnalyzer

\* no extractor yet
NoExtractor ==
    /\ parsed_files = <<>>
    /\ registry = EmptyRegistry
    /\ import_cache = [f \in {} |-> 0]
    /\ graph = <<>>
    /\ constructed = FALSE
    /\ cursor = 0

\* no rule engine, validator or drift detector yet
NoGovernance ==
    /\ config = [present |-> FALSE]
    /\ layer_cache = [m \in {} |-> 0]
    /\ violations = <<>>
    /\ warnings = <<>>
    /\ repo = <<>>
    /\ baseline = <<>>

\* no git risk analyzer yet
NoGitRisk ==
    /\ cached_analyzers = [r \in {} |-> 0]
    /\ analyzers_built = 0
    /\ history = <<>>

\* no expertise calculator yet
NoBlame ==
    /\ calculator = [present |-> FALSE]
    /\ commits_by_developer = [d \in {} |-> 0]
    /\ by_file = [f \in {} |-> 0]
    /\ blame_analyzer = <<>>

\* no source files scanned
NoParser == sources = <<>>

NoServices ==
    /\ NoGovernance
    /\ NoGitRisk
    /\ NoBlame
    /\ NoParser

GraphInit ==
    /\ EmptyGraph
    /\ NoExtractor
    /\ NoServices
    /\ last = [op |-> "none"]

\* CodeGraph.add_entity, with the metadata build_dependency_graph passes; as in
\* build_dependency_graph, entities are added before any relationship
AddEntity(entity_id) ==
    /\ relationships = <<>>
    /\ entity_id \notin DOMAIN entity_metadata
    /\ nxNodes' = NxAddNode(nxNodes, entity_id)
    /\ nepV' = NepAddNode(nepV, entity_id)
    /\ entity_metadata' =
           [e \in (DOMAIN entity_metadata) \cup {entity_id} |->
               IF e = entity_id THEN [file |-> FileOf(entity_id)] ELSE entity_metadata[e]]
    /\ last' = [op |-> "none"]
    /\ UNCHANGED <<nxEdges, nepE, relationships, git_risk>>
    /\ UNCHANGED <<extractVars, serviceVars>>

\* CodeGraph.add_relationship
AddRelationship(rel) ==
    /\ Len(relationships) < MaxRels
    /\ relationships' = Append(relationships, rel)
    /\ nxNodes' = NxAddNode(NxAddNode(nxNodes, rel.source), rel.target)
    /\ nxEdges' = NxAddEdgeAttrs(nxEdges, rel.source, rel.target, EdgeAttrs(rel))
    /\ nepV' = NepAddNode(NepAddNode(nepV, rel.source), rel.target)
    /\ nepE' = NepAddEdge(nepE, rel.source, rel.target, EdgeAttrs(rel))
    /\ last' = [op |-> "none"]
    /\ UNCHANGED <<entity_metadata, git_risk>>
    /\ UNCHANGED <<extractVars, serviceVars>>

\* load_data: graph_db["git_risk"] = get_git_risk_analyzer(REPO_PATH)
LoadGitRisk ==
    /\ ~git_risk.present
    /\ git_risk' = RepoAnalyzer
    /\ last' = [op |-> "none"]
    /\ UNCHANGED <<nxNodes, nxEdges, nepV, nepE, entity_metadata, relationships>>
    /\ UNCHANGED <<extractVars, serviceVars>>

\* calculate_blast_radius(G, target_function) of the graph module
BlastRadius(target) ==
    /\ last' = [op |-> "calculate_blast_radius", target |-> target,
                out |-> CallCalculateBlastRadius(target, {"target"})]
    /\ UNCHANGED <<graphVars, extractVars, parserVars, serviceVars>>

GetBlastRadius(function_name) ==
    /\ last' = [op |-> "get_blast_radius", target |-> function_name,
                out |-> GetBlastRadiusResponse(function_name)]
    /\ UNCHANGED <<graphVars, extractVars, parserVars, serviceVars>>

ExplainBlastRadius(function_name) ==
    /\ last' = [op |-> "explain_blast_radius", target |-> function_name,
                out |-> ExplainBlastRadiusResponse(function_name)]
    /\ UNCHANGED <<graphVars, extractVars, parserVars, serviceVars>>

\* the three transitive-ancestor traversals, asked for one node of the graph
Ancestors(node_id) ==
    /\ NxHasNode(node_id)
    /\ last' = [op |-> "ancestors", target |-> node_id,
                out |-> [collect_upstream |-> CollectUpstream(node_id, {}),
                         networkx |-> [raised |-> "none", value |-> NxAncestors(node_id)],
                         neptune |-> NepAncestors(node_id)]]
    /\ UNCHANGED <<graphVars, extractVars, parserVars, serviceVars>>

BuildGraph ==
    \/ \E e \in GraphIds : AddEntity(e)
    \/ \E s \in GraphIds, t \in GraphIds, ty \in RelTypes : AddRelationship(Relationship(s, t, ty))

\* the CodeGraph as a library: build, then ask for impact assessments
Next ==
    \/ BuildGraph
    \/ \E t \in Targets : BlastRadius(t)

Spec == GraphInit /\ [][Next]_vars

\* every user-visible path that serves blast-radius requests: the graph and the
\* analyzer are loaded, then the library entry point and the HTTP handlers answer
ApiNext ==
    \/ BuildGraph
    \/ LoadGitRisk
    \/ \E t \in Targets : BlastRadius(t)
    \/ \E t \in Targets : GetBlastRadius(t)
    \/ \E t \in Targets : ExplainBlastRadius(t)

SpecApi == GraphInit /\ [][ApiNext]_vars

\* the two store backends driven by the same calls, and their traversals
StoresNext ==
    \/ BuildGraph
    \/ \E n \in GraphIds : Ancestors(n)

SpecStores == GraphInit /\ [][StoresNext]_vars

\* ------------------------------------------------------------------------
\* The extraction specification: inputs (what the parser hands over)
\* ------------------------------------------------------------------------

SeqsUpTo(S, n) == UNION {[1..k -> S] : k \in 0..n}

FileM == <<"m", ".", "p", "y">>

NameF == <<"f">>

NameG == <<"g">>

ClassC == <<"C">>

ClassB == <<"B">>

ModuleM == <<"m">>

AliasX == <<"x">>

\* the text of the `function` node of a call, as find_calls collects it
CallStrings ==
    {<<"f">>, <<"C">>, <<"s", "e", "l", "f", ".", "f">>,
     <<"s", "u", "p", "e", "r", "(", ")", ".", "f">>, <<"x", ".", "f">>}

\* (name, parent_class, decorators) of the functions of a.py: a top-level f, a
\* method C.f, a decorated method C.g; a name may be defined more than once
ShapesA ==
    {<<NameF, <<>>, <<>> >>, <<NameF, ClassC, <<>> >>, <<NameG, ClassC, <<<<"d">>>> >>}

\* the functions of a.py in source order; the first one holds the calls
FunctionsA(shapes, calls) ==
    [i \in DOMAIN shapes |->
        FunctionEntity(shapes[i][1], FileA, shapes[i][2],
                       IF i = 1 THEN calls ELSE <<>>, shapes[i][3], i)]

\* the classes of a.py: none, class C, or class C(B)
ClassesA(line) ==
    {<<>>, <<ClassEntity(ClassC, FileA, <<>>, line)>>,
     <<ClassEntity(ClassC, FileA, <<ClassB>>, line)>>}

\* the imports of a.py: none, import m as x, from m import f, import x
ImportsA ==
    {<<>>, <<ImportEntity(ModuleM, <<>>, AliasX)>>,
     <<ImportEntity(ModuleM, <<NameF>>, <<>>)>>,
     <<ImportEntity(AliasX, <<>>, <<>>)>>}

\* m.py: empty, or a top-level f and a class B with a method f
FilesM ==
    {ParsedFile(FileM, <<>>, <<>>, <<>>),
     ParsedFile(FileM,
                <<FunctionEntity(NameF, FileM, <<>>, <<>>, <<>>, 1),
                  FunctionEntity(NameF, FileM, ClassB, <<>>, <<>>, 2)>>,
                <<ClassEntity(ClassB, FileM, <<>>, 3)>>, <<>>)}

RECURSIVE AllFunctions(_)
AllFunctions(pfs) ==
    IF pfs = <<>> THEN <<>> ELSE Head(pfs).functions \o AllFunctions(Tail(pfs))

\* the functions of the files that extract_all visits before file i
FunctionsBefore(pfs, i) == Len(AllFunctions(SubSeq(pfs, 1, i - 1)))

\* ------------------------------------------------------------------------
\* The extraction specification: the extractor's operations, one at a time
\* ------------------------------------------------------------------------

ExtractInit ==
    /\ EmptyGraph
    /\ \E shapes \in SeqsUpTo(ShapesA, MaxFuncs), calls \in SeqsUpTo(CallStrings, MaxCalls),
          imports \in ImportsA, pfM \in FilesM :
          /\ shapes = <<>> => calls = <<>>
          /\ \E classes \in ClassesA(Len(shapes) + 1) :
                parsed_files =
                    <<ParsedFile(FileA, FunctionsA(shapes, calls), classes, imports), pfM>>
    /\ registry = EmptyRegistry
    /\ import_cache = EmptyDict
    /\ graph = <<>>
    /\ constructed = FALSE
    /\ cursor = 0
    /\ NoServices
    /\ last = [op |-> "none"]

\* RelationshipExtractor.__init__
Construct ==
    /\ ~constructed
    /\ registry' = BuildRegistryFromParsedFiles(parsed_files)
    /\ import_cache' = SetImportsAll(EmptyDict, parsed_files)
    /\ constructed' = TRUE
    /\ last' = [op |-> "none"]
    /\ UNCHANGED <<serviceVars, graphVars, parsed_files, graph, cursor>>

\* _extract_function_relationships(func), for the functions in extract_all's order
ExtractFunction ==
    /\ constructed
    /\ cursor < Len(AllFunctions(parsed_files))
    /\ LET func == AllFunctions(parsed_files)[cursor + 1]
           emitted == ExtractFunctionRelationships(registry, import_cache, func)
       IN  /\ graph' = graph \o emitted
           /\ last' = [op |-> "extract_function", func |-> func, emitted |-> emitted]
    /\ cursor' = cursor + 1
    /\ UNCHANGED <<serviceVars, graphVars, parsed_files, registry, import_cache, constructed>>

\* _extract_imports(pf), at the point where extract_all calls it for file i
ExtractImports(i) ==
    /\ constructed
    /\ cursor = FunctionsBefore(parsed_files, i)
    /\ LET out == ExtractImportsOutcome(parsed_files[i])
       IN  /\ graph' = graph \o out.emitted
           /\ last' = [op |-> "extract_imports", file |-> parsed_files[i].file_path,
                       out |-> out]
    /\ UNCHANGED <<serviceVars, graphVars, parsed_files, registry, import_cache, constructed, cursor>>

ExtractNext ==
    \/ Construct
    \/ ExtractFunction
    \/ \E i \in DOMAIN parsed_files : ExtractImports(i)

SpecExtract == ExtractInit /\ [][ExtractNext]_vars

\* ------------------------------------------------------------------------
\* Reference notions over the log of added relationships
\* ------------------------------------------------------------------------

Added == Range(relationships)

AddedPredecessors(S) == {r.source : r \in {q \in Added : q.target \in S}}

RECURSIVE AddedClosure(_)
AddedClosure(S) ==
    IF AddedPredecessors(S) \subseteq S THEN S ELSE AddedClosure(S \cup AddedPredecessors(S))

\* the transitive predecessors of t over relationships of every type
AddedAncestors(t) == AddedClosure(AddedPredecessors({t}))

\* ------------------------------------------------------------------------
\* Claims settled under Spec (the CodeGraph as a library)
\* ------------------------------------------------------------------------

\* C1: for every graph, cyclic or not, and every node target of it, the
\* blast_radius of calculate_blast_radius is the number of distinct transitive
\* predecessors of target over all relationship types, target itself excluded.
C1_BlastRadiusIsAncestorCount ==
    (last.op = "calculate_blast_radius" /\ last.target \in nxNodes) =>
        /\ last.out.raised = "none"
        /\ last.out.value.blast_radius =
               Cardinality(AddedAncestors(last.target) \ {last.target})

\* C1 witness: an assessment of a target that lies on a cycle and has an
\* ancestor besides itself
C1_Witness ==
    /\ last.op = "calculate_blast_radius"
    /\ last.target \in AddedAncestors(last.target)
    /\ last.out.value.blast_radius >= 1

\* C2: after any sequence of add_relationship calls, direct_callers(target) is
\* exactly the set of sources s for which a CALLS relationship s -> target was
\* added, whatever other types were added between the same pair, in any order.
C2_DirectCallersAreAddedCalls ==
    (last.op = "calculate_blast_radius" /\ last.target \in nxNodes) =>
        last.out.value.direct_callers =
            {r.source : r \in {q \in Added : q.target = last.target /\ q.rel_type = "CALLS"}}

\* the edges of type t from u to v that the store holds
NxEdgesOfType(u, v, t) ==
    IF NxHasEdge(u, v) /\ nxEdges[<<u, v>>].type = t THEN 1 ELSE 0

\* C3: the graph built from the relationships is a multi-relation graph: per
\* ordered pair and type at most one edge, and every type added between a pair
\* is present (edges of different types coexist, none replaces another).
C3_MultiRelationGraph ==
    \A u \in GraphIds, v \in GraphIds, t \in RelTypes :
        /\ NxEdgesOfType(u, v, t) <= 1
        /\ NxEdgesOfType(u, v, t) = 1 <=>
               \E r \in Added : r.source = u /\ r.target = v /\ r.rel_type = t

\* ------------------------------------------------------------------------
\* Claims settled under SpecApi
\* ------------------------------------------------------------------------

\* C5: a blast-radius request for a target that is not a node is answered, on
\* every path, with a normal zero assessment: no callers, no tests, radius 0,
\* risk 0, and no error.
C5_UnknownTargetZeroAssessment ==
    /\ (last.op = "calculate_blast_radius" /\ last.target \notin nxNodes) =>
           /\ last.out.raised = "none"
           /\ last.out.value.blast_radius = 0
           /\ last.out.value.risk_score = 0
           /\ last.out.value.direct_callers = {}
           /\ last.out.value.indirect_callers = {}
           /\ last.out.value.affected_tests = {}
    /\ (last.op = "get_blast_radius" /\ last.target \notin nxNodes) =>
           /\ last.out.status = 200
           /\ last.out.blast_radius_score = 0
           /\ last.out.affected_functions = {}
    /\ (last.op = "explain_blast_radius" /\ last.target \notin nxNodes) =>
           /\ last.out.status = 200
           /\ last.out.impact_assessment.blast_radius = 0
           /\ last.out.impact_assessment.risk_score = 0

\* min((in_deg + out_deg) / 20, 1), in thousandths
DegreeFallback(target) == Min((NxInDegree(target) + NxOutDegree(target)) * 50, 1000)

\* C10: with a git risk analyzer supplied, change_frequency_risk and
\* bus_factor_risk of the assessment are the analyzer's values for the target's
\* file; without one they are min((in_deg+out_deg)/20, 1) and 0.5.
C10_GitRiskFeedsAssessment ==
    /\ (/\ last.op = "explain_blast_radius"
        /\ last.target \in DOMAIN entity_metadata
        /\ git_risk.present) =>
           /\ last.out.status = 200
           /\ last.out.impact_assessment.risk_factors.change_frequency_risk \in
                  GetChangeFrequencyRisk(git_risk, entity_metadata[last.target].file)
           /\ last.out.impact_assessment.risk_factors.bus_factor_risk \in
                  GetBusFactorRisk(git_risk, entity_metadata[last.target].file)
    /\ (last.op = "calculate_blast_radius" /\ last.target \in nxNodes) =>
           /\ last.out.raised = "none"
           /\ last.out.value.risk_factors.change_frequency_risk = DegreeFallback(last.target)
           /\ last.out.value.risk_factors.bus_factor_risk = 500

\* ------------------------------------------------------------------------
\* Claims settled under SpecStores
\* ------------------------------------------------------------------------

IsDuplicateFree(seq) == \A i \in DOMAIN seq, j \in DOMAIN seq : seq[i] = seq[j] => i = j

\* C6: every transitive-ancestor traversal returns on any finite graph, cycles
\* and self-loops included, and yields each ancestor exactly once.
C6_AncestorTraversalsYieldEachOnce ==
    (last.op = "ancestors") =>
        LET wanted == AddedAncestors(last.target) \ {last.target}
        IN  /\ last.out.collect_upstream \ {last.target} = wanted
            /\ last.out.networkx.raised = "none"
            /\ last.out.networkx.value \ {last.target} = wanted
            /\ last.out.neptune.raised = "none"
            /\ IsDuplicateFree(last.out.neptune.value)
            /\ Range(last.out.neptune.value) \ {last.target} = wanted

\* a list and a duplicate-free collection hold the same elements equally often
SameListing(seq, set) == Len(seq) = Cardinality(set) /\ Range(seq) = set

\* C7: after the same add_node/add_edge calls, the same pair added more than
\* once included, both stores answer has_edge, number_of_edges, predecessors,
\* successors, ancestors, in_degree, out_degree and density alike.
C7_StoresInterchangeable ==
    /\ nepV = nxNodes
    /\ NepNumberOfEdges = NxNumberOfEdges
    /\ NepDensity = NxDensity
    /\ \A u \in nxNodes, v \in nxNodes : NepHasEdge(u, v) = NxHasEdge(u, v)
    /\ \A n \in nxNodes :
        /\ SameListing(NepPredecessors(n), NxPredecessors(n))
        /\ SameListing(NepSuccessors(n), NxSuccessors(n))
        /\ NepInDegree(n) = NxInDegree(n)
        /\ NepOutDegree(n) = NxOutDegree(n)
        /\ NepAncestors(n).raised = "none"
        /\ Range(NepAncestors(n).value) = NxAncestors(n)

\* ------------------------------------------------------------------------
\* Claims settled under SpecExtract
\* ------------------------------------------------------------------------

\* the entities reachable through the by-name and the by-file index
ReachableEntities ==
    UNION {Range(registry.entities_by_name[n]) : n \in DOMAIN registry.entities_by_name}
    \cup UNION {Range(registry.entities_by_file[f]) : f \in DOMAIN registry.entities_by_file}

\* C9: after the registry is built from the parsed files, every entity
\* reachable through the by-name or by-file index is the entity stored under
\* its own unique id, and no two registered entities share a unique id.
C9_RegistryIdIndexOneToOne ==
    constructed =>
        /\ \A e \in ReachableEntities :
               /\ UniqueId(e) \in DOMAIN registry.entities_by_id
               /\ registry.entities_by_id[UniqueId(e)] = e
        /\ \A e1 \in ReachableEntities, e2 \in ReachableEntities :
               UniqueId(e1) = UniqueId(e2) => e1 = e2

IsRegisteredId(id) == id \in DOMAIN registry.entities_by_id

\* C4: every edge the extractor has emitted either joins two registered
\* unique ids, or is marked resolution_type "unresolved" and weighs at most 0.5.
C4_EdgeEndpointsRegisteredOrUnresolved ==
    \A i \in DOMAIN graph :
        \/ IsRegisteredId(graph[i].source) /\ IsRegisteredId(graph[i].target)
        \/ graph[i].resolution_type = "unresolved" /\ graph[i].weight <= 500

\* the CALLS and INSTANTIATES edges among those emitted for the last function
CallEdges ==
    SelectSeq(last.emitted,
              LAMBDA r : r.rel_type \in {"CALLS", "INSTANTIATES"}
                         /\ r.source = UniqueId(last.func))

RECURSIVE FnMatch(_, _)
FnMatch(name, pat) ==
    IF pat = <<>> THEN name = <<>>
    ELSE IF Head(pat) = "*"
         THEN FnMatch(name, Tail(pat)) \/ (name # <<>> /\ FnMatch(Tail(name), pat))
         ELSE /\ name # <<>>
              /\ (Head(pat) = "?" \/ Head(pat) = Head(name))
              /\ FnMatch(Tail(name), Tail(pat))

\* str.replace for a one-character old and new
ReplaceChar(s, old, new) == [i \in DOMAIN s |-> IF s[i] = old THEN new ELSE s[i]]

\* --- the module paths and glob patterns of the model ---

\* repository-relative file path that contains no "/api/"
ModApiRoutes == <<"a", "p", "i", "/", "r", "o", "u", "t", "e", "s", ".", "p", "y">>

\* dotted module name, as an absolute import gives it
ModDataModels == <<"d", "a", "t", "a", ".", "m", "o", "d", "e", "l", "s">>

ModApiA == <<"a", "p", "p", "/", "a", "p", "i", "/", "a", ".", "p", "y">>

ModApiB == <<"a", "p", "p", "/", "a", "p", "i", "/", "b", ".", "p", "y">>

ModServiceS == <<"a", "p", "p", "/", "s", "e", "r", "v", "i", "c", "e", "s", "/", "s", ".", "p", "y">>

\* the path a relative import of data.models resolves to
ModDataM == <<"r", "/", "a", "p", "p", "/", "d", "a", "t", "a", "/", "m", "o", "d", "e", "l", "s">>

Modules == {ModApiRoutes, ModDataModels, ModApiA, ModApiB, ModServiceS, ModDataM}

\* a standard-library module name
ModOs == <<"o", "s">>

MatchedNames == Modules \cup {ModOs}

ApiPatterns == << <<"*", "*", "/", "a", "p", "i", "/", "*", "*">>, <<"*", "*", "/", "r", "o", "u", "t", "e", "s", "/", "*", "*">>, <<"*", "*", "/", "e", "n", "d", "p", "o", "i", "n", "t", "s", "/", "*", "*">>, <<"*", "*", "/", "c", "o", "n", "t", "r", "o", "l", "l", "e", "r", "s", "/", "*", "*">> >>

ServicePatterns == << <<"*", "*", "/", "s", "e", "r", "v", "i", "c", "e", "s", "/", "*", "*">>, <<"*", "*", "/", "c", "o", "r", "e", "/", "*", "*">>, <<"*", "*", "/", "d", "o", "m", "a", "i", "n", "/", "*", "*">>, <<"*", "*", "/", "u", "s", "e", "c", "a", "s", "e", "s", "/", "*", "*">> >>

DataPatterns ==
    << <<"*", "*", "/", "d", "a", "t", "a", "/", "*", "*">>, <<"*", "*", "/", "m", "o", "d", "e", "l", "s", "/", "*", "*">>, <<"*", "*", "/", "s", "t", "o", "r", "a", "g", "e", "/", "*", "*">>, <<"*", "*", "/", "r", "e", "p", "o", "s", "i", "t", "o", "r", "i", "e", "s", "/", "*", "*">>, <<"*", "*", "/", "d", "b", "/", "*", "*">> >>

\* ArchitectureValidator.validate_repository: the default exclude_patterns
DefaultExcludePatterns ==
    << <<"*", "*", "/", "_", "_", "p", "y", "c", "a", "c", "h", "e", "_", "_", "/", "*", "*">>, <<"*", "*", "/", "v", "e", "n", "v", "/", "*", "*">>, <<"*", "*", "/", ".", "v", "e", "n", "v", "/", "*", "*">>, <<"*", "*", "/", "n", "o", "d", "e", "_", "m", "o", "d", "u", "l", "e", "s", "/", "*", "*">>,
       <<"*", "*", "/", ".", "g", "i", "t", "/", "*", "*">>, <<"*", "*", "/", "t", "e", "s", "t", "_", "*", ".", "p", "y">>, <<"*", "*", "/", "*", "_", "t", "e", "s", "t", ".", "p", "y">> >>

MatchedPatterns ==
    Range(ApiPatterns) \cup Range(ServicePatterns) \cup Range(DataPatterns)
        \cup Range(DefaultExcludePatterns)

\* fnmatch.fnmatch(name, pat) for every path and pattern above, computed once
FnMatchTable == [name \in MatchedNames |-> [pat \in MatchedPatterns |-> FnMatch(name, pat)]]

Layer(name, patterns, allowed_dependencies) ==
    [name |-> name, patterns |-> patterns, allowed_dependencies |-> allowed_dependencies]

\* Layer.matches
LayerMatches(layer, module_path) ==
    LET normalized == ReplaceChar(module_path, "\\", "/")
    IN  \E i \in DOMAIN layer.patterns : FnMatchTable[normalized][layer.patterns[i]]

BoundaryRule(name, from_layer, to_layer, action) ==
    [name |-> name, from_layer |-> from_layer, to_layer |-> to_layer, action |-> action]

\* BoundaryRule.matches
RuleMatches(rule, from_layer, to_layer) ==
    rule.from_layer = from_layer /\ rule.to_layer = to_layer

DEFAULT_CLEAN_ARCHITECTURE_RULES ==
    << BoundaryRule("No Direct Data Access from API", "api", "data", "block"),
       BoundaryRule("No Service Access from Data", "data", "service", "block"),
       BoundaryRule("No API Access from Data", "data", "api", "block") >>

ArchitectureConfig(layers, rules, strict_mode) ==
    [present |-> TRUE, layers |-> layers, rules |-> rules, strict_mode |-> strict_mode]

\* RuleEngine.with_clean_architecture with its default patterns; the layers
\* dict keeps its insertion order
WithCleanArchitecture ==
    ArchitectureConfig(
        << Layer("api", ApiPatterns, <<"service">>),
           Layer("service", ServicePatterns, <<"data">>),
           Layer("data", DataPatterns, <<>>) >>,
        DEFAULT_CLEAN_ARCHITECTURE_RULES, FALSE)

\* RuleEngine.from_yaml on a file that declares the same three layers
FromYaml(api_deps, service_deps, data_deps, rules, strict_mode) ==
    ArchitectureConfig(
        << Layer("api", ApiPatterns, api_deps),
           Layer("service", ServicePatterns, service_deps),
           Layer("data", DataPatterns, data_deps) >>,
        rules, strict_mode)

\* ArchitectureConfig.layers.get(name): None is <<>>
LayersGet(cfg, name) ==
    LET idx == {i \in DOMAIN cfg.layers : cfg.layers[i].name = name}
    IN  IF idx = {} THEN <<>> ELSE <<cfg.layers[CHOOSE i \in idx : TRUE]>>

\* RuleEngine.classify_layer: the layer found (None is <<>>) and the cache
\* afterwards; only hits are cached
ClassifyLayer(cfg, cache, module_path) ==
    IF module_path \in DOMAIN cache
    THEN [layer |-> <<cache[module_path]>>, cache |-> cache]
    ELSE LET hits == {i \in DOMAIN cfg.layers : LayerMatches(cfg.layers[i], module_path)}
         IN  IF hits = {} THEN [layer |-> <<>>, cache |-> cache]
             ELSE LET first == CHOOSE i \in hits : \A j \in hits : i <= j
                      name == cfg.layers[first].name
                  IN  [layer |-> <<name>>, cache |-> DictPut(cache, module_path, name)]

Violation(rule_name, from_module, to_module, from_layer, to_layer, line_number, severity) ==
    [rule_name |-> rule_name, from_module |-> from_module, to_module |-> to_module,
     from_layer |-> from_layer, to_layer |-> to_layer, line_number |-> line_number,
     severity |-> severity]

\* ValidationResult; violation=None is <<>>
ValidationResult(valid, violation) == [valid |-> valid, violation |-> violation]

\* `x or "unknown"` on an optional layer name
OrUnknown(layer) == IF layer = <<>> THEN "unknown" ELSE layer[1]

\* the outcome of the rule loop of validate_import: the first matching rule
FirstMatchingRule(rules, from_layer, to_layer) ==
    LET idx == {i \in DOMAIN rules : RuleMatches(rules[i], from_layer, to_layer)}
    IN  IF idx = {} THEN <<>> ELSE <<rules[CHOOSE i \in idx : \A j \in idx : i <= j]>>

\* validate_import from the point where both endpoints are classified into
\* different layers
ValidateCrossLayer(cfg, from_module, to_module, from_layer, to_layer, line_number) ==
    LET matched == FirstMatchingRule(cfg.rules, from_layer, to_layer)
        source_layer == LayersGet(cfg, from_layer)
    IN  IF matched # <<>>
        THEN IF matched[1].action = "allow" THEN ValidationResult(TRUE, <<>>)
             ELSE ValidationResult(matched[1].action = "warn",
                      <<Violation(matched[1].name, from_module, to_module, from_layer, to_layer,
                                  line_number,
                                  IF matched[1].action = "warn" THEN "warning" ELSE "error")>>)
        ELSE IF /\ source_layer # <<>>
                /\ source_layer[1].allowed_dependencies # <<>>
                /\ to_layer \notin Range(source_layer[1].allowed_dependencies)
             THEN ValidationResult(FALSE,
                      <<Violation("Allowed Dependencies", from_module, to_module, from_layer,
                                  to_layer, line_number, "error")>>)
             ELSE ValidationResult(TRUE, <<>>)

\* validate_import that consults the rules before the same-layer test
ValidateImportRulesFirst(cfg, cache, from_module, to_module, line_number) ==
    LET c1 == ClassifyLayer(cfg, cache, from_module)
        c2 == ClassifyLayer(cfg, c1.cache, to_module)
        result ==
            IF c1.layer = <<>> \/ c2.layer = <<>>
            THEN IF cfg.strict_mode
                 THEN ValidationResult(FALSE,
                          <<Violation("Strict Mode", from_module, to_module, OrUnknown(c1.layer),
                                      OrUnknown(c2.layer), line_number, "warning")>>)
                 ELSE ValidationResult(TRUE, <<>>)
            ELSE ValidateCrossLayer(cfg, from_module, to_module, c1.layer[1], c2.layer[1],
                                    line_number)
    IN  [result |-> result, cache |-> c2.cache]

\* validate_import whose strict-mode finding is an error
ValidateImportStrictError(cfg, cache, from_module, to_module, line_number) ==
    LET c1 == ClassifyLayer(cfg, cache, from_module)
        c2 == ClassifyLayer(cfg, c1.cache, to_module)
        result ==
            IF c1.layer = <<>> \/ c2.layer = <<>>
            THEN IF cfg.strict_mode
                 THEN ValidationResult(FALSE,
                          <<Violation("Strict Mode", from_module, to_module, OrUnknown(c1.layer),
                                      OrUnknown(c2.layer), line_number, "error")>>)
                 ELSE ValidationResult(TRUE, <<>>)
            ELSE IF c1.layer = c2.layer THEN ValidationResult(TRUE, <<>>)
            ELSE ValidateCrossLayer(cfg, from_module, to_module, c1.layer[1], c2.layer[1],
                                    line_number)
    IN  [result |-> result, cache |-> c2.cache]

\* RuleEngine.validate_import: the ValidationResult and the layer cache
\* afterwards
ValidateImport(cfg, cache, from_module, to_module, line_number) ==
    LET c1 == ClassifyLayer(cfg, cache, from_module)
        c2 == ClassifyLayer(cfg, c1.cache, to_module)
        result ==
            IF c1.layer = <<>> \/ c2.layer = <<>>
            THEN IF cfg.strict_mode
                 THEN ValidationResult(FALSE,
                          <<Violation("Strict Mode", from_module, to_module, OrUnknown(c1.layer),
                                      OrUnknown(c2.layer), line_number, "warning")>>)
                 ELSE ValidationResult(TRUE, <<>>)
            ELSE IF c1.layer = c2.layer THEN ValidationResult(TRUE, <<>>)
            ELSE ValidateCrossLayer(cfg, from_module, to_module, c1.layer[1], c2.layer[1],
                                    line_number)
    IN  [result |-> result, cache |-> c2.cache]

\* ------------------------------------------------------------------------
\* The rule engine specification: validate_import on a configured engine
\* ------------------------------------------------------------------------

\* rule lists a configuration file may declare
RuleSets ==
    { DEFAULT_CLEAN_ARCHITECTURE_RULES,
      <<>>,
      <<BoundaryRule("No API to API", "api", "api", "block")>>
          \o DEFAULT_CLEAN_ARCHITECTURE_RULES,
      <<BoundaryRule("API may read data", "api", "data", "allow")>>
          \o DEFAULT_CLEAN_ARCHITECTURE_RULES,
      <<BoundaryRule("Service to API", "service", "api", "warn")>> }

Configs ==
    {WithCleanArchitecture} \cup
    { FromYaml(api_deps, <<"data">>, <<>>, rules, strict_mode) :
        api_deps \in {<<"service">>, <<>>}, rules \in RuleSets, strict_mode \in BOOLEAN }

\* RuleEngine.__init__ with a loaded configuration
RulesInit ==
    /\ EmptyGraph
    /\ NoExtractor
    /\ NoGitRisk
    /\ NoParser
    /\ NoBlame
    /\ config \in Configs
    /\ layer_cache = EmptyDict
    /\ violations = <<>>
    /\ warnings = <<>>
    /\ repo = <<>>
    /\ baseline = <<>>
    /\ last = [op |-> "none"]

\* RuleEngine.validate_import(from_module, to_module)
CallValidateImport(from_module, to_module) ==
    LET r == ValidateImport(config, layer_cache, from_module, to_module, 1)
    IN  /\ layer_cache' = r.cache
        /\ last' = [op |-> "validate_import", from_module |-> from_module,
                    to_module |-> to_module, result |-> r.result]
        /\ UNCHANGED <<graphVars, extractVars, parserVars, riskVars, blameVars, config, violations, warnings, repo, baseline>>

RulesNext ==
    \E from_module \in Modules, to_module \in Modules : CallValidateImport(from_module, to_module)

SpecRules == RulesInit /\ [][RulesNext]_vars

\* the layer a module path belongs to under the loaded configuration
LayerOf(module_path) == ClassifyLayer(config, EmptyDict, module_path).layer

\* C11: a cross-layer import between two classified layers that no boundary
\* rule matches is an ERROR violation exactly when the target layer is absent
\* from the source layer's declared allowed_dependencies, whether that list is
\* empty or not, and is allowed otherwise
C11_UnmatchedImportFollowsAllowedDependencies ==
    (/\ last.op = "validate_import"
     /\ LayerOf(last.from_module) # <<>>
     /\ LayerOf(last.to_module) # <<>>
     /\ LayerOf(last.from_module) # LayerOf(last.to_module)
     /\ FirstMatchingRule(config.rules, LayerOf(last.from_module)[1],
                          LayerOf(last.to_module)[1]) = <<>>)
    => LET source_layer == LayersGet(config, LayerOf(last.from_module)[1])[1]
           absent == LayerOf(last.to_module)[1] \notin Range(source_layer.allowed_dependencies)
       IN  IF absent
           THEN /\ last.result.valid = FALSE
                /\ last.result.violation # <<>>
                /\ last.result.violation[1].severity = "error"
           ELSE last.result = ValidationResult(TRUE, <<>>)

\* an unmatched import from a layer that declares a non-empty list without
\* the target, reported as an error
C11_Witness ==
    /\ last.op = "validate_import"
    /\ LayerOf(last.from_module) = <<"service">>
    /\ LayerOf(last.to_module) = <<"api">>
    /\ FirstMatchingRule(config.rules, "service", "api") = <<>>
    /\ last.result.violation # <<>>
    /\ last.result.violation[1].rule_name = "Allowed Dependencies"

\* C13: an import whose source and target are classified into the same layer
\* is allowed with no violation, whatever the rules, the allowed_dependencies
\* and the strict-mode setting
C13_SameLayerImportAllowed ==
    (/\ last.op = "validate_import"
     /\ LayerOf(last.from_module) # <<>>
     /\ LayerOf(last.from_module) = LayerOf(last.to_module))
    => last.result = ValidationResult(TRUE, <<>>)

\* an api-to-api import validated in strict mode under a rule that blocks api
\* to api, from a layer whose allowed_dependencies lack api
C13_Witness ==
    /\ last.op = "validate_import"
    /\ last.from_module = ModApiA
    /\ last.to_module = ModApiB
    /\ config.strict_mode
    /\ FirstMatchingRule(config.rules, "api", "api") # <<>>
    /\ FirstMatchingRule(config.rules, "api", "api")[1].action = "block"
    /\ LayersGet(config, "api")[1].allowed_dependencies = <<>>
    /\ last.result.valid

\* ------------------------------------------------------------------------
\* Governance: the architecture validator
\* ------------------------------------------------------------------------

\* imports of one file that the drift specification varies
MaxImports == 6

\* str.split(sep) for a one-character separator
RECURSIVE Split(_, _)
Split(s, sep) ==
    IF IndexOf(s, <<sep>>) = 0 THEN <<s>>
    ELSE <<Before(s, <<sep>>)>> \o Split(After(s, <<sep>>), sep)

\* sep.join(parts)
RECURSIVE Join(_, _)
Join(parts, sep) ==
    IF parts = <<>> THEN <<>>
    ELSE IF Len(parts) = 1 THEN parts[1]
    ELSE parts[1] \o sep \o Join(Tail(parts), sep)

\* os.path.join(root, file) for relative forward-slash paths
PathJoin(root, file) == root \o <<"/">> \o file

\* os.path.relpath(path, start) for a path below start
RelPath(path, start) ==
    IF StartsWith(path, start \o <<"/">>) THEN SubSeq(path, Len(start) + 2, Len(path))
    ELSE path

\* an import statement of a file: `import module` (kind "import") or
\* `from <level dots>module import ...` (kind "from")
ImportStmt(kind, module, level, line) ==
    [kind |-> kind, module |-> module, level |-> level, line |-> line]

\* ArchitectureValidator._resolve_relative_import; Path(file_path).parts of a
\* relative forward-slash path are its "/"-separated components
ResolveRelativeImport(file_path, module, level) ==
    LET parts == Split(file_path, "/")
    IN  IF level > 0 /\ Len(parts) > level
        THEN LET base_parts == SubSeq(parts, 1, Len(parts) - level)
             IN  IF module # <<>>
                 THEN Join(base_parts, <<"/">>) \o <<"/">> \o ReplaceChar(module, ".", "/")
                 ELSE Join(base_parts, <<"/">>)
        ELSE module

\* ArchitectureValidator._extract_imports on top-level import statements
RECURSIVE ExtractImportsAst(_, _)
ExtractImportsAst(stmts, file_path) ==
    IF stmts = <<>> THEN <<>>
    ELSE LET st == Head(stmts)
             found ==
                 IF st.kind = "import" THEN <<[module |-> st.module, line |-> st.line]>>
                 ELSE IF st.module = <<>> THEN <<>>
                 ELSE IF st.level > 0
                      THEN <<[module |-> ResolveRelativeImport(file_path, st.module, st.level),
                              line |-> st.line]>>
                      ELSE <<[module |-> st.module, line |-> st.line]>>
         IN  found \o ExtractImportsAst(Tail(stmts), file_path)

FileValidationResult(file_path, file_violations, file_warnings, imports_checked) ==
    [file_path |-> file_path, violations |-> file_violations, warnings |-> file_warnings,
     imports_checked |-> imports_checked]

\* the body of the loop of validate_file after validate_import returned v:
\* the finding is filed as a warning or a violation and the import counted
CheckedImport(acc, v) ==
    LET found == v.result.violation
        as_warning == found # <<>> /\ found[1].severity = "warning"
        as_violation == found # <<>> /\ found[1].severity # "warning"
    IN  [result |-> FileValidationResult(
                        acc.result.file_path,
                        acc.result.violations \o (IF as_violation THEN found ELSE <<>>),
                        acc.result.warnings \o (IF as_warning THEN found ELSE <<>>),
                        acc.result.imports_checked + 1),
         cache |-> v.cache]

\* the loop of validate_file over the extracted imports: acc carries the file
\* result and the engine's layer cache
RECURSIVE ValidateImportsLoop(_, _, _, _)
ValidateImportsLoop(cfg, relative_path, imports, acc) ==
    IF imports = <<>> THEN acc
    ELSE ValidateImportsLoop(cfg, relative_path, Tail(imports),
             CheckedImport(acc,
                 ValidateImport(cfg, acc.cache, relative_path, Head(imports).module,
                                Head(imports).line)))

\* ArchitectureValidator.validate_file on a readable file with the given
\* import statements: the file result and the layer cache afterwards
ValidateFile(cfg, cache, file_path, repo_root, stmts) ==
    IF ~EndsWith(file_path, <<".", "p", "y">>)
    THEN [result |-> FileValidationResult(file_path, <<>>, <<>>, 0), cache |-> cache]
    ELSE LET imports == ExtractImportsAst(stmts, file_path)
             relative_path == IF repo_root # <<>> THEN RelPath(file_path, repo_root)
                              ELSE file_path
         IN  ValidateImportsLoop(cfg, relative_path, imports,
                 [result |-> FileValidationResult(file_path, <<>>, <<>>, 0), cache |-> cache])

\* the exclusion test of validate_repository
IsExcluded(relative_path, exclude_patterns) ==
    \E i \in DOMAIN exclude_patterns : FnMatchTable[relative_path][exclude_patterns[i]]

\* the body of the walk of validate_repository after validate_file returned
\* fr: the file is counted and its result kept when it has findings
CheckedFile(acc, fr) ==
    LET keep == fr.result.violations # <<>> \/ fr.result.warnings # <<>>
    IN  [total_files |-> acc.total_files + 1,
         total_imports |-> acc.total_imports + fr.result.imports_checked,
         file_results |-> acc.file_results \o (IF keep THEN <<fr.result>> ELSE <<>>),
         cache |-> fr.cache]

\* the walk of validate_repository over the files in os.walk order
RECURSIVE ValidateRepositoryLoop(_, _, _, _)
ValidateRepositoryLoop(cfg, repo_path, files, acc) ==
    IF files = <<>> THEN acc
    ELSE LET file == Head(files)
             file_path == PathJoin(repo_path, file.path)
             relative_path == ReplaceChar(RelPath(file_path, repo_path), "\\", "/")
         IN  IF \/ ~EndsWith(file.path, <<".", "p", "y">>)
                \/ IsExcluded(relative_path, DefaultExcludePatterns)
             THEN ValidateRepositoryLoop(cfg, repo_path, Tail(files), acc)
             ELSE ValidateRepositoryLoop(cfg, repo_path, Tail(files),
                      CheckedFile(acc, ValidateFile(cfg, acc.cache, file_path, repo_path,
                                                    file.imports)))

\* ArchitectureValidator.validate_repository with the default exclusions: the
\* RepositoryValidationResult and the layer cache afterwards
ValidateRepository(cfg, cache, repo_path, files) ==
    ValidateRepositoryLoop(cfg, repo_path, files,
        [total_files |-> 0, total_imports |-> 0, file_results |-> <<>>, cache |-> cache])

\* RepositoryValidationResult.all_violations
RECURSIVE AllViolations(_)
AllViolations(file_results) ==
    IF file_results = <<>> THEN <<>>
    ELSE Head(file_results).violations \o AllViolations(Tail(file_results))

\* RepositoryValidationResult.all_warnings
RECURSIVE AllWarnings(_)
AllWarnings(file_results) ==
    IF file_results = <<>> THEN <<>>
    ELSE Head(file_results).warnings \o AllWarnings(Tail(file_results))

\* ------------------------------------------------------------------------
\* Governance: the drift detector (scores and ratios in thousandths)
\* ------------------------------------------------------------------------

\* round(num / den, 3) in thousandths, for num >= 0 and den > 0
RoundRatio(num, den) == (2000 * num + den) \div (2 * den)

Abs(x) == IF x < 0 THEN -x ELSE x

RECURSIVE SumOver(_, _)
SumOver(f, keys) ==
    IF keys = {} THEN 0
    ELSE LET k == CHOOSE x \in keys : TRUE IN f[k] + SumOver(f, keys \ {k})

\* DriftMetrics; the timestamp takes no part in any comparison
DriftMetrics(coupling_score, cohesion_score, violation_count, layer_balance, depth) ==
    [coupling_score |-> coupling_score, cohesion_score |-> cohesion_score,
     violation_count |-> violation_count, layer_balance |-> layer_balance,
     dependency_depth |-> depth]

\* the os.walk loop of calculate_metrics: files per layer, files in total,
\* and the layer cache
RECURSIVE CountLayerFiles(_, _, _)
CountLayerFiles(cfg, files, acc) ==
    IF files = <<>> THEN acc
    ELSE LET file == Head(files)
         IN  IF ~EndsWith(file.path, <<".", "p", "y">>)
             THEN CountLayerFiles(cfg, Tail(files), acc)
             ELSE LET c == ClassifyLayer(cfg, acc.cache, file.path)
                      counted ==
                          IF c.layer = <<>> THEN acc.layer_files
                          ELSE DictPut(acc.layer_files, c.layer[1],
                                       (IF c.layer[1] \in DOMAIN acc.layer_files
                                        THEN acc.layer_files[c.layer[1]] ELSE 0) + 1)
                  IN  CountLayerFiles(cfg, Tail(files),
                          [layer_files |-> counted, total_files |-> acc.total_files + 1,
                           cache |-> c.cache])

\* DriftDetector._calculate_dependency_depth
CalculateDependencyDepth(file_results) ==
    LET vs == AllViolations(file_results)
    IN  Cardinality({vs[i].from_layer : i \in DOMAIN vs} \cup {vs[i].to_layer : i \in DOMAIN vs})

\* calculate_metrics from the validation result vr and the per-layer file
\* counts
MetricsOf(vr, counts) ==
    LET total_violations == Len(AllViolations(vr.file_results))
        total_warnings == Len(AllWarnings(vr.file_results))
        layer_balance ==
            IF counts.total_files > 0
            THEN [l \in DOMAIN counts.layer_files |->
                     RoundRatio(counts.layer_files[l], counts.total_files)]
            ELSE EmptyDict
        \* violation_weight / total_imports as the fraction num / den
        num == 2 * total_violations + total_warnings
        den == 2 * vr.total_imports
        capped == vr.total_imports = 0 \/ num >= den
        coupling_score ==
            IF vr.total_imports = 0 THEN 0 ELSE IF capped THEN 1000 ELSE RoundRatio(num, den)
        cohesion_score ==
            IF vr.total_imports = 0 THEN 1000 ELSE IF capped THEN 0
            ELSE RoundRatio(den - num, den)
    IN  [metrics |-> DriftMetrics(coupling_score, cohesion_score, total_violations,
                                  layer_balance, CalculateDependencyDepth(vr.file_results)),
         cache |-> counts.cache]

\* the second walk of calculate_metrics, which counts the files per layer
\* after the validation returned vr
MetricsAfterValidation(cfg, files, vr) ==
    MetricsOf(vr, CountLayerFiles(cfg, files,
                      [layer_files |-> EmptyDict, total_files |-> 0, cache |-> vr.cache]))

\* DriftDetector.calculate_metrics: the metrics and the layer cache afterwards
CalculateMetrics(cfg, cache, repo_path, files) ==
    MetricsAfterValidation(cfg, files, ValidateRepository(cfg, cache, repo_path, files))

\* DriftDetector._calculate_indicators
CalculateIndicators(base, current) ==
    LET all_layers == DOMAIN base.layer_balance \cup DOMAIN current.layer_balance
        delta == [l \in all_layers |->
                     Abs((IF l \in DOMAIN current.layer_balance
                          THEN current.layer_balance[l] ELSE 0)
                         - (IF l \in DOMAIN base.layer_balance
                            THEN base.layer_balance[l] ELSE 0))]
    IN  [coupling_increase |-> current.coupling_score - base.coupling_score,
         cohesion_decrease |-> base.cohesion_score - current.cohesion_score,
         violation_increase |-> current.violation_count - base.violation_count,
         balance_drift |-> SumOver(delta, all_layers),
         depth_increase |-> current.dependency_depth - base.dependency_depth]

\* DriftDetector._calculate_drift_score followed by the round(drift_score, 3)
\* of detect_drift; the sum is kept in units of 1/300000 so that the division
\* of the depth by 3 stays exact until the rounding
CalculateDriftScore(indicators) ==
    LET ratio(v) == IF v > 0 THEN 3 * Min(Abs(v), 1000) ELSE 0
        violation == IF indicators.violation_increase > 0
                     THEN 3 * Min(100 * Abs(indicators.violation_increase), 1000) ELSE 0
        depth == IF indicators.depth_increase > 0
                 THEN Min(1000 * Abs(indicators.depth_increase), 3000) ELSE 0
        normalized_score ==
            ratio(indicators.coupling_increase) * 25 + ratio(indicators.cohesion_decrease) * 20
                + violation * 30 + ratio(indicators.balance_drift) * 15 + depth * 10
    IN  Min((2 * normalized_score + 300) \div 600, 1000)

\* DriftDetector._generate_recommendations; the count message carries its count
GenerateRecommendations(indicators, current) ==
    LET recommendations ==
            (IF indicators.coupling_increase > 100
             THEN <<[text |-> "Coupling has increased significantly."]>> ELSE <<>>)
            \o (IF indicators.violation_increase > 0
                THEN <<[text |-> "new architecture violations detected.",
                        count |-> indicators.violation_increase]>> ELSE <<>>)
            \o (IF indicators.balance_drift > 200
                THEN <<[text |-> "Code distribution across layers has shifted."]>> ELSE <<>>)
            \o (IF current.violation_count > 5
                THEN <<[text |-> "Consider refactoring to reduce violation count below 5."]>>
                ELSE <<>>)
    IN  IF recommendations = <<>>
        THEN <<[text |-> "Architecture is stable. No significant drift detected."]>>
        ELSE recommendations

DriftReport(base, current, drift_score, indicators, recommendations) ==
    [baseline |-> base, current |-> current, drift_score |-> drift_score,
     indicators |-> indicators, recommendations |-> recommendations]

\* DriftDetector.detect_drift given the current metrics; baseline None is <<>>
DetectDriftReport(base, current) ==
    IF base = <<>>
    THEN DriftReport(<<>>, current, 0, EmptyDict,
                     <<[text |-> "No baseline found. Run 'save_baseline' to establish one."]>>)
    ELSE LET indicators == CalculateIndicators(base[1], current)
         IN  DriftReport(base, current, CalculateDriftScore(indicators), indicators,
                         GenerateRecommendations(indicators, current))

\* ------------------------------------------------------------------------
\* The validator specification: a repository on disk, a validator and a
\* drift detector that share one rule engine
\* ------------------------------------------------------------------------

\* the repository root as passed to validate_repository
RepoPath == <<"r">>

\* api/routes.py: `import data.models`
FileRoutes == [path |-> ModApiRoutes, imports |-> <<ImportStmt("import", ModDataModels, 0, 1)>>]

\* app/api/a.py: k lines of `from ..data.models import ...`
FileApiA(k) ==
    [path |-> ModApiA, imports |-> [i \in 1..k |-> ImportStmt("from", ModDataModels, 2, i)]]

\* app/services/s.py: `import os`
FileServiceS == [path |-> ModServiceS, imports |-> <<ImportStmt("import", ModOs, 0, 1)>>]

\* repository contents that the validator is run on, files in os.walk order
Repos ==
    { routes \o apia \o svc :
        routes \in {<<>>, <<FileRoutes>>},
        apia \in {<<>>, <<FileApiA(1)>>},
        svc \in {<<>>, <<FileServiceS>>} }

\* repository contents that drift is measured on
DriftRepos ==
    { apia \o svc :
        apia \in {<<>>} \cup {<<FileApiA(k)>> : k \in 1..MaxImports},
        svc \in {<<>>, <<FileServiceS>>} }

\* the built-in default, and a configuration file that adds strict mode to it
ValidatorConfigs ==
    { WithCleanArchitecture,
      FromYaml(<<"service">>, <<"data">>, <<>>, DEFAULT_CLEAN_ARCHITECTURE_RULES, TRUE) }

\* ArchitectureValidator.__init__
ValidatorInit ==
    /\ EmptyGraph
    /\ NoExtractor
    /\ NoGitRisk
    /\ NoParser
    /\ NoBlame
    /\ config \in ValidatorConfigs
    /\ layer_cache = EmptyDict
    /\ violations = <<>>
    /\ warnings = <<>>
    /\ repo \in Repos
    /\ baseline = <<>>
    /\ last = [op |-> "none"]

\* ArchitectureValidator.validate_repository(repo_path)
CallValidateRepository ==
    \E r \in {ValidateRepository(config, layer_cache, RepoPath, repo)} :
        /\ violations' = AllViolations(r.file_results)
        /\ warnings' = AllWarnings(r.file_results)
        /\ layer_cache' = r.cache
        /\ last' = [op |-> "validate_repository",
                    result |-> [total_files |-> r.total_files,
                                total_imports |-> r.total_imports,
                                file_results |-> r.file_results]]
        /\ UNCHANGED <<graphVars, extractVars, parserVars, riskVars, blameVars, config, repo, baseline>>

\* DriftDetector.save_baseline(repo_path, output_path)
SaveBaseline ==
    \E m \in {CalculateMetrics(config, layer_cache, RepoPath, repo)} :
        /\ baseline' = <<m.metrics>>
        /\ layer_cache' = m.cache
        /\ last' = [op |-> "save_baseline", metrics |-> m.metrics]
        /\ UNCHANGED <<graphVars, extractVars, parserVars, riskVars, blameVars, config, violations, warnings, repo>>

\* DriftDetector.detect_drift(repo_path); `previous` is the request served
\* just before it
DetectDrift ==
    \E m \in {CalculateMetrics(config, layer_cache, RepoPath, repo)} :
        /\ layer_cache' = m.cache
        /\ last' = [op |-> "detect_drift", previous |-> last.op,
                    report |-> DetectDriftReport(baseline, m.metrics)]
        /\ UNCHANGED <<graphVars, extractVars, parserVars, riskVars, blameVars, config, violations, warnings, repo, baseline>>

\* the developers change the repository
WriteRepo(files) ==
    /\ files # repo
    /\ repo' = files
    /\ last' = [op |-> "write_repo"]
    /\ UNCHANGED <<graphVars, extractVars, parserVars, riskVars, blameVars, config, layer_cache, violations, warnings, baseline>>

ValidatorNext ==
    \/ CallValidateRepository
    \/ \E files \in Repos : WriteRepo(files)

SpecValidator == ValidatorInit /\ [][ValidatorNext]_vars

\* DriftDetector.__init__ without a baseline file
DriftInit ==
    /\ EmptyGraph
    /\ NoExtractor
    /\ NoGitRisk
    /\ NoParser
    /\ NoBlame
    /\ config \in ValidatorConfigs
    /\ layer_cache = EmptyDict
    /\ violations = <<>>
    /\ warnings = <<>>
    /\ repo \in DriftRepos
    /\ baseline = <<>>
    /\ last = [op |-> "none"]

DriftNext ==
    \/ SaveBaseline
    \/ DetectDrift
    \/ \E files \in DriftRepos : WriteRepo(files)

SpecDrift == DriftInit /\ [][DriftNext]_vars

\* C12: under the clean-architecture layers, where api may not import data,
\* validating a repository whose only file api/routes.py imports data.models
\* returns exactly one violation: severity ERROR, from api, to data
C12_ApiRoutesImportingDataIsOneError ==
    (/\ last.op = "validate_repository"
     /\ repo = <<FileRoutes>>
     /\ FirstMatchingRule(config.rules, "api", "data") # <<>>
     /\ FirstMatchingRule(config.rules, "api", "data")[1].action = "block")
    => /\ Len(violations) = 1
       /\ violations[1].severity = "error"
       /\ violations[1].from_layer = "api"
       /\ violations[1].to_layer = "data"

\* the same import validated from a file below a directory named api: one
\* error from api to data
C12_Witness ==
    /\ last.op = "validate_repository"
    /\ repo = <<FileApiA(1)>>
    /\ Len(violations) = 1
    /\ violations[1].severity = "error"
    /\ violations[1].from_layer = "api"
    /\ violations[1].to_layer = "data"

\* the imports of the repository as validate_file hands them to the engine
ImportsChecked ==
    UNION { LET file_path == PathJoin(RepoPath, repo[f].path)
                imports == ExtractImportsAst(repo[f].imports, file_path)
            IN  { [from_module |-> RelPath(file_path, RepoPath),
                   to_module |-> imports[i].module, line_number |-> imports[i].line] :
                  i \in DOMAIN imports }
            : f \in DOMAIN repo }

\* the findings in a list that were raised for one import
FindingsFor(findings, imp) ==
    { i \in DOMAIN findings :
        /\ findings[i].from_module = imp.from_module
        /\ findings[i].to_module = imp.to_module
        /\ findings[i].line_number = imp.line_number }

\* C14: an import with an unclassified endpoint raises no finding when strict
\* mode is off; in strict mode it raises exactly one finding, of severity
\* WARNING, counted among the warnings and not among the violations
C14_UnclassifiedImportWarnsOnlyInStrictMode ==
    last.op = "validate_repository" =>
        \A imp \in ImportsChecked :
            (LayerOf(imp.from_module) = <<>> \/ LayerOf(imp.to_module) = <<>>) =>
                /\ FindingsFor(violations, imp) = {}
                /\ IF config.strict_mode
                   THEN /\ Cardinality(FindingsFor(warnings, imp)) = 1
                        /\ \A i \in FindingsFor(warnings, imp) : warnings[i].severity = "warning"
                   ELSE FindingsFor(warnings, imp) = {}

\* a strict-mode validation of a repository that holds both an unclassified
\* import and an api-to-data import
C14_Witness ==
    /\ last.op = "validate_repository"
    /\ config.strict_mode
    /\ repo = <<FileRoutes, FileApiA(1)>>
    /\ Len(warnings) = 1
    /\ warnings[1].rule_name = "Strict Mode"
    /\ Len(violations) = 1

\* C15: detecting drift immediately after saving a baseline of the same,
\* unchanged repository gives drift_score 0 and a recommendations list that
\* contains the stable-architecture message, whatever the violation count
C15_NoDriftRightAfterBaseline ==
    (last.op = "detect_drift" /\ last.previous = "save_baseline") =>
        /\ last.report.drift_score = 0
        /\ \E i \in DOMAIN last.report.recommendations :
              last.report.recommendations[i].text
                  = "Architecture is stable. No significant drift detected."

\* drift detected right after a baseline of a repository with violations
C15_Witness ==
    /\ last.op = "detect_drift"
    /\ last.previous = "save_baseline"
    /\ last.report.current.violation_count = 3
    /\ last.report.drift_score = 0
    /\ last.report.recommendations
           = <<[text |-> "Architecture is stable. No significant drift detected."]>>

\* ------------------------------------------------------------------------
\* GitRiskAnalyzer.analyze and the module-level analyzer cache
\* ------------------------------------------------------------------------

\* commits in the history of the repository
MaxCommits == 2

\* the age, in days, below which analyze counts a commit as recent
RecentDays == 90

\* a commit that changes one file
Commit(author, file_path, age_days) ==
    [author |-> author, file_path |-> file_path, age_days |-> age_days]

\* the commits of the scanned history that analyze files under file_path:
\* only paths ending in ".py" are collected
FileCommits(commits, file_path) ==
    {i \in DOMAIN commits :
        commits[i].file_path = file_path /\ EndsWith(file_path, <<".", "p", "y">>)}

\* the FileRiskMetrics analyze builds for one file (recent_change_ratio in
\* thousandths)
FileRiskMetrics(commits, file_path) ==
    LET mine == FileCommits(commits, file_path)
        total == Cardinality(mine)
        recent == Cardinality({i \in mine : commits[i].age_days < RecentDays})
    IN  [change_count |-> total,
         unique_authors |-> Cardinality({commits[i].author : i \in mine}),
         days_since_last_change |->
             CHOOSE d \in {commits[i].age_days : i \in mine} :
                 \A i \in mine : d <= commits[i].age_days,
         recent_change_ratio |-> (recent * 1000) \div Max(total, 1)]

\* GitRiskAnalyzer.__init__
NewAnalyzer(id, repo_path) ==
    [present |-> TRUE, id |-> id, repo_path |-> repo_path, file_metrics |-> EmptyDict,
     max_change_count |-> 1, analyzed |-> FALSE]

\* analyze without the `if self._analyzed: return` guard
AnalyzeAlways(an, commits, outcome) ==
    IF outcome # "ok" THEN [an EXCEPT !.analyzed = TRUE]
    ELSE LET touched == {commits[i].file_path : i \in DOMAIN commits}
             files == {f \in touched : FileCommits(commits, f) # {}}
             built == [f \in files |-> FileRiskMetrics(commits, f)]
             file_metrics == [f \in DOMAIN an.file_metrics \cup files |->
                                 IF f \in files THEN built[f] ELSE an.file_metrics[f]]
         IN  [an EXCEPT !.file_metrics = file_metrics,
                        !.max_change_count =
                            IF DOMAIN file_metrics = {} THEN an.max_change_count
                            ELSE CHOOSE c \in {file_metrics[f].change_count :
                                                  f \in DOMAIN file_metrics} :
                                     \A f \in DOMAIN file_metrics :
                                         file_metrics[f].change_count <= c,
                        !.analyzed = TRUE]

\* GitRiskAnalyzer.analyze: the analyzer afterwards. outcome is what the
\* environment does to the scan: "ok", "import_error" (gitpython missing),
\* "no_repo" (InvalidGitRepositoryError, NoSuchPathError) or "read_error"
\* (iter_commits raises)
Analyze(an, commits, outcome) ==
    IF an.analyzed THEN an
    ELSE IF outcome # "ok" THEN [an EXCEPT !.analyzed = TRUE]
    ELSE LET touched == {commits[i].file_path : i \in DOMAIN commits}
             files == {f \in touched : FileCommits(commits, f) # {}}
             built == [f \in files |-> FileRiskMetrics(commits, f)]
             file_metrics == [f \in DOMAIN an.file_metrics \cup files |->
                                 IF f \in files THEN built[f] ELSE an.file_metrics[f]]
         IN  [an EXCEPT !.file_metrics = file_metrics,
                        !.max_change_count =
                            IF DOMAIN file_metrics = {} THEN an.max_change_count
                            ELSE CHOOSE c \in {file_metrics[f].change_count :
                                                  f \in DOMAIN file_metrics} :
                                     \A f \in DOMAIN file_metrics :
                                         file_metrics[f].change_count <= c,
                        !.analyzed = TRUE]

\* the working directory of the process
Cwd == <<"/", "w">>

\* os.path.abspath
AbsPath(path) ==
    IF StartsWith(path, <<"/">>) THEN path
    ELSE IF path = <<".">> THEN Cwd
    ELSE Cwd \o <<"/">> \o path

\* ------------------------------------------------------------------------
\* The git risk specification: a repository that receives commits while the
\* process asks for its analyzer and queries it
\* ------------------------------------------------------------------------

\* a directory that is not inside a git repository
NoRepoDir == <<"/", "v">>

\* repo_path arguments: the repository, spelled two ways, and NoRepoDir
RepoPathArgs == {<<".">>, Cwd, NoRepoDir}

\* a Python file whose name ends with the name of FileA
FileDa == <<"d", "a", ".", "p", "y">>

\* a Python file with the basename of FileB in another directory
FileTb == <<"t", "/", "b", ".", "p", "y">>

FileNotes == <<"n", ".", "m", "d">>

CommittedFiles == {FileA, FileB, FileNotes}

QueriedFiles == {FileA, FileB, FileDa, FileTb}

\* ann's commits are ten days old when the history is scanned, bob's 200
Commits ==
    {Commit("ann", file_path, 10) : file_path \in CommittedFiles}
        \cup {Commit("bob", file_path, 200) : file_path \in CommittedFiles}

\* what the environment can do to a scan of the directory
Outcomes(abs_path) ==
    IF abs_path = Cwd THEN {"ok", "import_error", "read_error"}
    ELSE {"no_repo", "import_error"}

GitRiskInit ==
    /\ EmptyGraph
    /\ NoExtractor
    /\ NoGovernance
    /\ NoGitRisk
    /\ NoParser
    /\ NoBlame
    /\ last = [op |-> "none"]

\* a developer commits
GitCommit(c) ==
    /\ Len(history) < MaxCommits
    /\ history' = Append(history, c)
    /\ last' = [op |-> "commit"]
    /\ UNCHANGED <<graphVars, extractVars, parserVars, govVars, blameVars, cached_analyzers, analyzers_built>>

\* get_git_risk_analyzer(repo_path)
GetGitRiskAnalyzer(repo_path, outcome) ==
    LET abs_path == AbsPath(repo_path)
    IN  /\ outcome \in Outcomes(abs_path)
        /\ IF abs_path \notin DOMAIN cached_analyzers
           THEN LET analyzer ==
                        Analyze(NewAnalyzer(analyzers_built + 1, abs_path), history, outcome)
                IN  /\ cached_analyzers' = DictPut(cached_analyzers, abs_path, analyzer)
                    /\ analyzers_built' = analyzers_built + 1
                    /\ last' = [op |-> "get_git_risk_analyzer", repo_path |-> repo_path,
                                created |-> TRUE, analyzer_id |-> analyzer.id]
           ELSE /\ last' = [op |-> "get_git_risk_analyzer", repo_path |-> repo_path,
                            created |-> FALSE,
                            analyzer_id |-> cached_analyzers[abs_path].id]
                /\ UNCHANGED <<cached_analyzers, analyzers_built>>
        /\ UNCHANGED <<graphVars, extractVars, parserVars, govVars, blameVars, history>>

\* analyze() on a cached analyzer
CallAnalyze(abs_path, outcome) ==
    /\ abs_path \in DOMAIN cached_analyzers
    /\ outcome \in Outcomes(abs_path)
    /\ cached_analyzers' =
           DictPut(cached_analyzers, abs_path,
                   Analyze(cached_analyzers[abs_path], history, outcome))
    /\ last' = [op |-> "analyze", repo_path |-> abs_path]
    /\ UNCHANGED <<graphVars, extractVars, parserVars, govVars, blameVars, analyzers_built, history>>

\* get_change_frequency_risk(file_path) and get_bus_factor_risk(file_path) on
\* a cached analyzer; each begins with self.analyze()
QueryRisk(abs_path, file_path, outcome) ==
    /\ abs_path \in DOMAIN cached_analyzers
    /\ outcome \in Outcomes(abs_path)
    /\ LET analyzer == Analyze(cached_analyzers[abs_path], history, outcome)
       IN  /\ cached_analyzers' = DictPut(cached_analyzers, abs_path, analyzer)
           /\ last' = [op |-> "query", repo_path |-> abs_path, file_path |-> file_path,
                       change_frequency_risk |-> GetChangeFrequencyRisk(analyzer, file_path),
                       bus_factor_risk |-> GetBusFactorRisk(analyzer, file_path)]
    /\ UNCHANGED <<graphVars, extractVars, parserVars, govVars, blameVars, analyzers_built, history>>

GitRiskNext ==
    \/ \E c \in Commits : GitCommit(c)
    \/ \E repo_path \in RepoPathArgs, outcome \in {"ok", "import_error", "read_error", "no_repo"} :
          GetGitRiskAnalyzer(repo_path, outcome)
    \/ \E abs_path \in {Cwd, NoRepoDir}, outcome \in {"ok", "import_error", "read_error", "no_repo"} :
          \/ CallAnalyze(abs_path, outcome)
          \/ \E file_path \in QueriedFiles : QueryRisk(abs_path, file_path, outcome)

SpecGitRisk == GitRiskInit /\ [][GitRiskNext]_vars

\* the files the commits of the repository have touched
TouchedFiles == {history[i].file_path : i \in DOMAIN history}

\* C16: for a file path that no commit touched, get_change_frequency_risk
\* returns 0.3 and get_bus_factor_risk returns 0.5, whatever the names and
\* metrics of the touched files
C16_UntouchedFileGetsDefaults ==
    (last.op = "query" /\ last.file_path \notin TouchedFiles)
    => /\ last.change_frequency_risk = {300}
       /\ last.bus_factor_risk = {500}

\* an untouched path queried on an analyzer that holds metrics of a file
\* whose name it does not resemble
C16_Witness ==
    /\ last.op = "query"
    /\ last.file_path = FileTb
    /\ last.repo_path = Cwd
    /\ DOMAIN cached_analyzers[Cwd].file_metrics = {FileA}
    /\ last.change_frequency_risk = {300}
    /\ last.bus_factor_risk = {500}

\* C17: once a cached analyzer's analyze() has returned, by whatever path, no
\* later analyze, query or get_git_risk_analyzer changes its metrics cache or
\* its normalisation maximum, and get_git_risk_analyzer returns the cached
\* analyzer of the absolute path
C17_HistoryScannedOnce ==
    [][ /\ \A p \in DOMAIN cached_analyzers' : cached_analyzers'[p].analyzed
        /\ \A p \in DOMAIN cached_analyzers :
              /\ p \in DOMAIN cached_analyzers'
              /\ cached_analyzers'[p] = cached_analyzers[p]
        /\ last'.op = "get_git_risk_analyzer" =>
              /\ AbsPath(last'.repo_path) \in DOMAIN cached_analyzers'
              /\ last'.analyzer_id = cached_analyzers'[AbsPath(last'.repo_path)].id
              /\ (AbsPath(last'.repo_path) \in DOMAIN cached_analyzers) = ~last'.created
      ]_vars

\* the analyzer of the repository, asked for under its other spelling and
\* queried after a commit that followed its scan
C17_Witness ==
    /\ last.op = "query"
    /\ last.repo_path = Cwd
    /\ Len(history) = 2
    /\ history[2].file_path = FileB
    /\ DOMAIN cached_analyzers[Cwd].file_metrics = {FileA}
    /\ last.file_path = FileB
    /\ last.bus_factor_risk = {500}

\* ------------------------------------------------------------------------
\* Smart Blame: scoring factors and the expertise calculator. Scores are
\* integers in millionths, weights in thousandths; every division rounds
\* down.
\* ------------------------------------------------------------------------

\* 1.0 as a score
One == 1000 * 1000

\* commits of one kind that a developer has on the file
MaxPerKind == 2

\* SmartBlameConfig.recency_half_life_days
DefaultHalfLifeDays == 180

\* CommitAnalysis: the fields the factors read; total_lines_changed is
\* lines_added + lines_deleted, the timestamp is age_days before now
CommitAnalysis(kind, lines_added, lines_deleted, age_days, reviewers) ==
    [is_refactor |-> kind = "refactor", is_architectural |-> kind = "architectural",
     is_bug_fix |-> kind = "bug_fix", total_lines_changed |-> lines_added + lines_deleted,
     age_days |-> age_days, reviewers |-> reviewers]

RECURSIVE SumSeq(_)
SumSeq(s) == IF s = <<>> THEN 0 ELSE Head(s) + SumSeq(Tail(s))

\* sum(c.total_lines_changed for c in commits)
TotalLines(commits) == SumSeq([i \in DOMAIN commits |-> commits[i].total_lines_changed])

\* the largest r in lo..hi with r * r <= x
RECURSIVE SqrtBetween(_, _, _)
SqrtBetween(x, lo, hi) ==
    IF lo = hi THEN lo
    ELSE LET mid == (lo + hi + 1) \div 2
         IN  IF mid * mid <= x THEN SqrtBetween(x, mid, hi) ELSE SqrtBetween(x, lo, mid - 1)

\* math.sqrt of a ratio given in millionths, in thousandths; of a ratio of
\* 1.0 and above, the whole part of the root
SqrtThousandths(ratio) ==
    IF ratio < One THEN SqrtBetween(ratio, 0, 1000)
    ELSE 1000 * SqrtBetween(ratio \div One, 0, ratio \div One)

RECURSIVE PowerOfTwo(_)
PowerOfTwo(n) == IF n <= 0 THEN 1 ELSE 2 * PowerOfTwo(n - 1)

\* math.exp(-math.log(2) / half_life * days): exact at whole half-lives,
\* interpolated linearly between them, and above 1.0 for a negative age
ExpDecay(days, half_life) ==
    IF days <= 0 THEN One - days
    ELSE LET whole == One \div PowerOfTwo(days \div half_life)
         IN  (whole * (2 * half_life - (days % half_life))) \div (2 * half_life)

ScoringContext(all_commits, developer_commits, half_life) ==
    [all_commits |-> all_commits, developer_commits |-> developer_commits,
     total_commits_for_file |-> Len(all_commits), recency_half_life_days |-> half_life]

\* CommitFrequencyFactor.calculate
CommitFrequency(commits, context) ==
    IF context.total_commits_for_file = 0 THEN 0
    ELSE Min(One, (2 * Len(commits) * One) \div context.total_commits_for_file)

\* LinesChangedFactor.calculate
LinesChanged(commits, context) ==
    IF commits = <<>> THEN 0
    ELSE IF TotalLines(context.all_commits) = 0 THEN 0
    ELSE LET ratio == (TotalLines(commits) * One) \div TotalLines(context.all_commits)
         IN  Min(One, SqrtThousandths(ratio) * 1500)

\* RefactorDepthFactor.calculate
RefactorDepth(commits, context) ==
    LET refactor_commits == SelectSeq(commits, LAMBDA c : c.is_refactor)
        all_refactors == SelectSeq(context.all_commits, LAMBDA c : c.is_refactor)
        total_all_refactors == IF all_refactors # <<>> THEN Len(all_refactors) ELSE 1
        total_all_refactor_lines ==
            IF all_refactors # <<>> THEN TotalLines(all_refactors) ELSE 1
        count_ratio == (Len(refactor_commits) * One) \div total_all_refactors
        size_ratio == IF total_all_refactor_lines > 0
                      THEN (TotalLines(refactor_commits) * One) \div total_all_refactor_lines
                      ELSE 0
    IN  IF commits = <<>> \/ refactor_commits = <<>> THEN 0
        ELSE Min(One, (count_ratio * 4 + size_ratio * 6) \div 10)

\* ArchitecturalChangesFactor.calculate
ArchitecturalChanges(commits, context) ==
    LET arch_commits == SelectSeq(commits, LAMBDA c : c.is_architectural)
        all_arch == SelectSeq(context.all_commits, LAMBDA c : c.is_architectural)
        total_arch == IF all_arch # <<>> THEN Len(all_arch) ELSE 1
    IN  IF commits = <<>> \/ arch_commits = <<>> THEN 0
        ELSE Min(One, (Len(arch_commits) * One * 15) \div (total_arch * 10))

\* BugFixesFactor.calculate
BugFixes(commits, context) ==
    LET bug_fix_commits == SelectSeq(commits, LAMBDA c : c.is_bug_fix)
        all_fixes == SelectSeq(context.all_commits, LAMBDA c : c.is_bug_fix)
        total_fixes == IF all_fixes # <<>> THEN Len(all_fixes) ELSE 1
    IN  IF commits = <<>> \/ bug_fix_commits = <<>> THEN 0
        ELSE Min(One, (Len(bug_fix_commits) * One) \div total_fixes)

\* RecencyFactor.calculate
Recency(commits, context) ==
    IF commits = <<>> THEN 0
    ELSE LET days_since == CHOOSE d \in {commits[i].age_days : i \in DOMAIN commits} :
                               \A i \in DOMAIN commits : d <= commits[i].age_days
         IN  Min(One, Max(0, ExpDecay(days_since, context.recency_half_life_days)))

\* CodeReviewParticipationFactor.calculate
CodeReviewParticipation(commits, context) ==
    LET reviewed_commits == SelectSeq(commits, LAMBDA c : c.reviewers # <<>>)
        total_reviews == SumSeq([i \in DOMAIN commits |-> Len(commits[i].reviewers)])
    IN  IF commits = <<>> THEN 0
        ELSE IF reviewed_commits # <<>> THEN Min(One, (total_reviews * One) \div 10)
        ELSE IF context.total_commits_for_file > 0
             THEN ((Len(commits) * One) \div context.total_commits_for_file) \div 2
             ELSE 0

\* a ScoringFactor object: its name and weight properties
Factor(name, weight) == [name |-> name, weight |-> weight]

\* get_default_factors
GetDefaultFactors ==
    << Factor("commit_frequency", 150), Factor("lines_changed", 100),
       Factor("refactor_depth", 250), Factor("architectural_changes", 200),
       Factor("bug_fixes", 150), Factor("recency", 100),
       Factor("code_review_participation", 50) >>

\* factor.calculate(commits, context), by the factor's class
FactorCalculate(factor, commits, context) ==
    CASE factor.name = "commit_frequency" -> CommitFrequency(commits, context)
      [] factor.name = "lines_changed" -> LinesChanged(commits, context)
      [] factor.name = "refactor_depth" -> RefactorDepth(commits, context)
      [] factor.name = "architectural_changes" -> ArchitecturalChanges(commits, context)
      [] factor.name = "bug_fixes" -> BugFixes(commits, context)
      [] factor.name = "recency" -> Recency(commits, context)
      [] factor.name = "code_review_participation" -> CodeReviewParticipation(commits, context)

\* sum(f.weight for f in factors)
SumWeights(factors) == SumSeq([i \in DOMAIN factors |-> factors[i].weight])

\* validate_weights that accepts every total
ValidateWeightsAnyTotal(factors) == SumWeights(factors) = SumWeights(factors)

\* validate_weights: abs(total - 1.0) < 0.001
ValidateWeights(factors) == Abs(SumWeights(factors) - 1000) < 1

\* SmartBlameConfig: the fields the calculator reads
SmartBlameConfig(weights, half_life) ==
    [weights |-> weights, recency_half_life_days |-> half_life]

\* SmartBlameConfig()
DefaultConfig ==
    SmartBlameConfig([n \in {GetDefaultFactors[i].name : i \in DOMAIN GetDefaultFactors} |->
                         (CHOOSE f \in Range(GetDefaultFactors) : f.name = n).weight],
                     DefaultHalfLifeDays)

\* ExpertiseScoreCalculator.__init__: the calculator built and whether the
\* weight warning was issued; factors=None is <<>>, config=None is <<>>
NewCalculator(factors, cfg) ==
    LET used == IF factors # <<>> THEN factors ELSE GetDefaultFactors
    IN  [calculator |-> [present |-> TRUE, factors |-> used,
                         config |-> IF cfg # <<>> THEN cfg[1] ELSE DefaultConfig],
         raised |-> "none",
         warned |-> ~ValidateWeights(used)]

\* self.config.weights.get(factor.name, factor.weight)
WeightOf(calc, factor) ==
    IF factor.name \in DOMAIN calc.config.weights THEN calc.config.weights[factor.name]
    ELSE factor.weight

\* ExpertiseScoreCalculator.calculate_expertise: total_score, the factors
\* dict and commit_count of the ExpertiseScore
CalculateExpertise(calc, developer, developer_commits, all_commits) ==
    LET context == ScoringContext(all_commits, developer_commits,
                                  calc.config.recency_half_life_days)
        score(i) == FactorCalculate(calc.factors[i], developer_commits, context)
        names == {calc.factors[i].name : i \in DOMAIN calc.factors}
        factor_scores ==
            [n \in names |->
                score(CHOOSE i \in DOMAIN calc.factors :
                          /\ calc.factors[i].name = n
                          /\ \A j \in DOMAIN calc.factors :
                                 calc.factors[j].name = n => j <= i)]
        weighted_sum ==
            SumSeq([i \in DOMAIN calc.factors |->
                       (score(i) * WeightOf(calc, calc.factors[i])) \div 1000])
    IN  [developer |-> developer, total_score |-> Min(weighted_sum, One),
         factors |-> factor_scores, commit_count |-> Len(developer_commits)]

\* list.sort(key=total_score, reverse=True): stable, descending
RECURSIVE SortByScore(_)
SortByScore(scores) ==
    IF scores = <<>> THEN <<>>
    ELSE LET best == CHOOSE i \in DOMAIN scores :
                         /\ \A j \in DOMAIN scores : scores[j].total_score <= scores[i].total_score
                         /\ \A j \in 1..(i - 1) : scores[j].total_score < scores[i].total_score
         IN  <<scores[best]>>
                 \o SortByScore(SubSeq(scores, 1, best - 1) \o SubSeq(scores, best + 1, Len(scores)))

\* the loop of calculate_multiple: developers without commits are skipped
RECURSIVE ScoreEach(_, _, _, _)
ScoreEach(calc, developers, by_developer, all_commits) ==
    IF developers = <<>> THEN <<>>
    ELSE LET developer == Head(developers)
             developer_commits == IF developer \in DOMAIN by_developer
                                  THEN by_developer[developer] ELSE <<>>
         IN  (IF developer_commits = <<>> THEN <<>>
              ELSE <<CalculateExpertise(calc, developer, developer_commits, all_commits)>>)
                 \o ScoreEach(calc, Tail(developers), by_developer, all_commits)

\* ExpertiseScoreCalculator.calculate_multiple
CalculateMultiple(calc, developers, by_developer, all_commits) ==
    SortByScore(ScoreEach(calc, developers, by_developer, all_commits))

\* ------------------------------------------------------------------------
\* The blame specifications: the commits of one file by two developers
\* ------------------------------------------------------------------------

DevA == "a@example.com"

DevB == "b@example.com"

Kinds == {"refactor", "architectural", "bug_fix"}

\* how a developer commits: one-line changes a year ago without review, or
\* hundred-line reviewed changes today
SmallOld == [lines_added |-> 1, lines_deleted |-> 0, age_days |-> 360, reviewers |-> <<>>]

LargeRecent == [lines_added |-> 60, lines_deleted |-> 40, age_days |-> 0, reviewers |-> <<"r">>]

Styles == {SmallOld, LargeRecent}

\* n commits of one kind in one style
CommitsOfKind(kind, n, style) ==
    [i \in 1..n |-> CommitAnalysis(kind, style.lines_added, style.lines_deleted,
                                   style.age_days, style.reviewers)]

\* the commits of a developer with the given number of commits per kind
CommitsOf(counts, style) ==
    CommitsOfKind("refactor", counts["refactor"], style)
        \o CommitsOfKind("architectural", counts["architectural"], style)
        \o CommitsOfKind("bug_fix", counts["bug_fix"], style)

\* the commits of the file: DevA's, then DevB's
AllCommits == commits_by_developer[DevA] \o commits_by_developer[DevB]

\* the calculator is constructed on request
BlameInit ==
    /\ EmptyGraph
    /\ NoExtractor
    /\ NoGovernance
    /\ NoGitRisk
    /\ NoParser
    /\ calculator = [present |-> FALSE]
    /\ by_file = EmptyDict
    /\ blame_analyzer = <<>>
    /\ \E counts \in [Kinds -> 0..MaxPerKind] :
          commits_by_developer =
              (DevA :> CommitsOf(counts, SmallOld)
               @@ DevB :> CommitsOf([k \in Kinds |-> 1], LargeRecent))
    /\ last = [op |-> "none"]

\* the blame analyzer has constructed its calculator with the defaults
ExpertiseInit ==
    /\ EmptyGraph
    /\ NoExtractor
    /\ NoGovernance
    /\ NoGitRisk
    /\ NoParser
    /\ calculator = NewCalculator(<<>>, <<>>).calculator
    /\ by_file = EmptyDict
    /\ blame_analyzer = <<>>
    /\ \E counts_a \in [Kinds -> 0..MaxPerKind], counts_b \in [Kinds -> 0..(MaxPerKind - 1)],
          style_a \in Styles, style_b \in Styles :
          commits_by_developer =
              (DevA :> CommitsOf(counts_a, style_a) @@ DevB :> CommitsOf(counts_b, style_b))
    /\ last = [op |-> "none"]

\* factor lists handed to the constructor: None, the defaults with a heavier
\* recency subclass, and two of the defaults
FactorLists ==
    { <<>>,
      [GetDefaultFactors EXCEPT ![6] = Factor("recency", 500)],
      <<Factor("commit_frequency", 150), Factor("recency", 100)>> }

\* configurations handed to the constructor: None, the default with recency
\* weighted 0.5, and one without weights
BlameConfigs ==
    { <<>>,
      <<SmartBlameConfig([DefaultConfig.weights EXCEPT !["recency"] = 500], DefaultHalfLifeDays)>>,
      <<SmartBlameConfig(EmptyDict, DefaultHalfLifeDays)>> }

\* ExpertiseScoreCalculator(factors, config)
ConstructCalculator(factors, cfg) ==
    /\ ~calculator.present
    /\ LET built == NewCalculator(factors, cfg)
       IN  /\ calculator' = IF built.raised = "none" THEN built.calculator ELSE calculator
           /\ last' = [op |-> "construct", raised |-> built.raised, warned |-> built.warned]
    /\ UNCHANGED <<graphVars, extractVars, parserVars, govVars, riskVars, commits_by_developer, by_file, blame_analyzer>>

\* calculate_expertise for one developer; all_commits is the file's commits
\* or, from a caller that filters them otherwise, the other developer's
CallCalculateExpertise(developer, whole_file) ==
    /\ calculator.present
    /\ LET all_commits == IF whole_file THEN AllCommits
                          ELSE commits_by_developer[IF developer = DevA THEN DevB ELSE DevA]
       IN  last' = [op |-> "calculate_expertise", developer |-> developer,
                    whole_file |-> whole_file,
                    score |-> CalculateExpertise(calculator, developer,
                                                 commits_by_developer[developer], all_commits)]
    /\ UNCHANGED <<graphVars, extractVars, parserVars, govVars, riskVars, blameVars>>

\* calculate_multiple for both developers of the file
CallCalculateMultiple ==
    /\ calculator.present
    /\ last' = [op |-> "calculate_multiple",
                scores |-> CalculateMultiple(calculator, <<DevA, DevB>>, commits_by_developer,
                                             AllCommits)]
    /\ UNCHANGED <<graphVars, extractVars, parserVars, govVars, riskVars, blameVars>>

BlameNext ==
    \/ \E factors \in FactorLists, cfg \in BlameConfigs : ConstructCalculator(factors, cfg)
    \/ \E developer \in {DevA, DevB}, whole_file \in BOOLEAN :
          CallCalculateExpertise(developer, whole_file)

SpecBlame == BlameInit /\ [][BlameNext]_vars

ExpertiseNext ==
    \/ CallCalculateMultiple
    \/ \E developer \in {DevA, DevB}, whole_file \in BOOLEAN :
          CallCalculateExpertise(developer, whole_file)

SpecExpertise == ExpertiseInit /\ [][ExpertiseNext]_vars

\* the weights calculate_expertise applies to the calculator's factors
EffectiveWeights ==
    [i \in DOMAIN calculator.factors |-> WeightOf(calculator, calculator.factors[i])]

\* C18 as stated: a calculator whose weights do not sum to 1.0 fails at
\* construction with a ConfigurationError, and no score is computed with
\* such weights
C18_BadWeightsFailConstruction ==
    /\ (calculator.present /\ SumWeights(calculator.factors) # 1000)
           => last.op = "construct" /\ last.raised = "ConfigurationError"
    /\ last.op = "calculate_expertise" => SumSeq(EffectiveWeights) = 1000

\* C18, amended: constructing the calculator with factor weights that do not
\* sum to 1.0 succeeds with a warning and raises nothing, and
\* calculate_expertise then weighs the factors by config.weights, or by the
\* factor's own weight where the config has none, whatever their sum
C18_BadWeightsOnlyWarn ==
    /\ last.op = "construct" =>
          /\ last.raised = "none"
          /\ calculator.present
          /\ last.warned = (SumWeights(calculator.factors) # 1000)
    /\ last.op = "calculate_expertise" =>
          last.score.total_score =
              Min(SumSeq([i \in DOMAIN calculator.factors |->
                             (last.score.factors[calculator.factors[i].name]
                                  * EffectiveWeights[i]) \div 1000]),
                  One)

\* a calculator built from two of the default factors and a configuration
\* without weights: the warning was issued and a score was computed with
\* weights that sum to 0.25
C18_Witness ==
    /\ last.op = "calculate_expertise"
    /\ SumWeights(calculator.factors) = 250
    /\ SumSeq(EffectiveWeights) = 250
    /\ last.score.total_score > 0

\* commits of a kind in a list
CountKind(commits, kind) ==
    Len(SelectSeq(commits, LAMBDA c :
            CASE kind = "refactor" -> c.is_refactor
              [] kind = "architectural" -> c.is_architectural
              [] kind = "bug_fix" -> c.is_bug_fix))

\* the rounding error the integer scores may carry
Tolerance == One \div 1000

\* developer x has strictly more commits of every kind than developer y
MoreOfEveryKind(x, y) ==
    \A kind \in Kinds :
        CountKind(commits_by_developer[x], kind) > CountKind(commits_by_developer[y], kind)

\* C19: of two developers scored on the same file, one that has strictly more
\* commits of every classified kind and at least one strictly larger factor
\* value has a total score at least as large
C19_MoreCommitsScoreAtLeastAsHigh ==
    last.op = "calculate_multiple" =>
        \A i, j \in DOMAIN last.scores :
            (/\ MoreOfEveryKind(last.scores[i].developer, last.scores[j].developer)
             /\ \E n \in DOMAIN last.scores[i].factors :
                   last.scores[i].factors[n] > last.scores[j].factors[n])
            => last.scores[i].total_score + Tolerance >= last.scores[j].total_score

\* two developers with commits in the same style, one with more of each kind
C19_Witness ==
    /\ last.op = "calculate_multiple"
    /\ Len(last.scores) = 2
    /\ MoreOfEveryKind(DevA, DevB)
    /\ commits_by_developer[DevB] # <<>>
    /\ commits_by_developer[DevA][1].age_days = commits_by_developer[DevB][1].age_days
    /\ last.scores[1].developer = DevA
    /\ last.scores[1].total_score > last.scores[2].total_score

\* C20: calculate_expertise returns a total_score in [0, 1] and exactly one
\* factor value per configured factor, each in [0, 1], for any developer
\* commits and any list of all commits
C20_ScoresWithinUnitInterval ==
    last.op = "calculate_expertise" =>
        /\ 0 <= last.score.total_score /\ last.score.total_score <= One
        /\ DOMAIN last.score.factors = {calculator.factors[i].name : i \in DOMAIN calculator.factors}
        /\ Cardinality(DOMAIN last.score.factors) = Len(calculator.factors)
        /\ \A n \in DOMAIN last.score.factors :
              0 <= last.score.factors[n] /\ last.score.factors[n] <= One

\* the seven default factors scored for a developer against the commits of
\* the whole file, every value within [0, 1]
C20_Witness ==
    /\ last.op = "calculate_expertise"
    /\ last.whole_file
    /\ Cardinality(DOMAIN last.score.factors) = 7
    /\ last.score.commit_count = 3 * MaxPerKind
    /\ last.score.total_score > 0
    /\ \A n \in DOMAIN last.score.factors :
          0 <= last.score.factors[n] /\ last.score.factors[n] <= One

\* ------------------------------------------------------------------------
\* Smart Blame: the in-memory expert store
\* ------------------------------------------------------------------------

\* SmartBlameConfig.expert_confidence_threshold, in millionths
DefaultExpertThreshold == 600000

MaxLimit == 2

\* the scores stored for a file (defaultdict: none for an unknown file)
ScoresOf(stored, file_path) == IF file_path \in DOMAIN stored THEN stored[file_path] ELSE <<>>

\* store_expertise that leaves the developer's earlier score in place
StoreExpertiseKeepOld(stored, score) ==
    DictPut(stored, score.target_path,
            SortByScore(Append(ScoresOf(stored, score.target_path), score)))

\* InMemoryStore.store_expertise: _by_file afterwards
StoreExpertise(stored, score) ==
    LET kept == SelectSeq(ScoresOf(stored, score.target_path),
                          LAMBDA s : s.developer # score.developer)
    IN  DictPut(stored, score.target_path, SortByScore(Append(kept, score)))

\* InMemoryStore.store_expertise_batch
RECURSIVE StoreExpertiseBatch(_, _)
StoreExpertiseBatch(stored, scores) ==
    IF scores = <<>> THEN stored
    ELSE StoreExpertiseBatch(StoreExpertise(stored, Head(scores)), Tail(scores))

\* scores[:limit]
SliceTo(scores, limit) ==
    IF limit >= 0 THEN SubSeq(scores, 1, Min(limit, Len(scores)))
    ELSE SubSeq(scores, 1, Max(0, Len(scores) + limit))

\* InMemoryStore.get_experts_for_file
GetExpertsForFile(stored, file_path, limit) == SliceTo(ScoresOf(stored, file_path), limit)

\* the module test of get_bus_factor and get_experts_for_module
InModule(file_path, module_path) ==
    StartsWith(file_path, module_path) \/ Contains(file_path, module_path)

\* InMemoryStore.get_bus_factor
GetBusFactor(stored, threshold, module_path) ==
    Cardinality(UNION { {stored[f][i].developer :
                            i \in {j \in DOMAIN stored[f] : stored[f][j].total_score > threshold}} :
                        f \in {g \in DOMAIN stored : InModule(g, module_path)} })

\* ------------------------------------------------------------------------
\* The expert store specification: scores are stored and queried
\* ------------------------------------------------------------------------

FileSrcA == <<"s", "r", "c", "/", "a", ".", "p", "y">>

FileLibB == <<"l", "i", "b", "/", "s", "r", "c", "/", "b", ".", "p", "y">>

StoredFiles == {FileSrcA, FileLibB}

ModuleSrc == <<"s", "r", "c">>

ModuleLib == <<"l", "i", "b">>

\* an ExpertiseScore as the store sees it
ExpertiseScore(developer, target_path, total_score, commit_count) ==
    [developer |-> developer, target_path |-> target_path, total_score |-> total_score,
     commit_count |-> commit_count]

\* scores handed to the store: below, at and above the expert threshold
StoredScores ==
    { ExpertiseScore(developer, target_path, total_score, 1) :
        developer \in {DevA, DevB}, target_path \in StoredFiles,
        total_score \in {DefaultExpertThreshold \div 2, DefaultExpertThreshold,
                         DefaultExpertThreshold + DefaultExpertThreshold \div 2} }

\* InMemoryStore.__init__
ExpertStoreInit ==
    /\ EmptyGraph
    /\ NoExtractor
    /\ NoGovernance
    /\ NoGitRisk
    /\ NoParser
    /\ calculator = [present |-> FALSE]
    /\ commits_by_developer = EmptyDict
    /\ by_file = EmptyDict
    /\ blame_analyzer = <<>>
    /\ last = [op |-> "none"]

\* store.store_expertise(score)
CallStoreExpertise(score) ==
    /\ by_file' = StoreExpertise(by_file, score)
    /\ last' = [op |-> "store_expertise", score |-> score]
    /\ UNCHANGED <<graphVars, extractVars, parserVars, govVars, riskVars, calculator,
                   commits_by_developer, blame_analyzer>>

\* store.get_experts_for_file(file_path, limit)
CallGetExpertsForFile(file_path, limit) ==
    /\ last' = [op |-> "get_experts_for_file", file_path |-> file_path, limit |-> limit,
                experts |-> GetExpertsForFile(by_file, file_path, limit)]
    /\ UNCHANGED <<graphVars, extractVars, parserVars, govVars, riskVars, blameVars>>

\* store.get_bus_factor(module_path) with the default configuration
CallGetBusFactor(module_path) ==
    /\ last' = [op |-> "get_bus_factor", module_path |-> module_path,
                bus_factor |-> GetBusFactor(by_file, DefaultExpertThreshold, module_path)]
    /\ UNCHANGED <<graphVars, extractVars, parserVars, govVars, riskVars, blameVars>>

ExpertStoreNext ==
    \/ \E score \in StoredScores : CallStoreExpertise(score)
    \/ \E file_path \in StoredFiles, limit \in 0..MaxLimit :
          CallGetExpertsForFile(file_path, limit)
    \/ \E module_path \in {ModuleSrc, ModuleLib} : CallGetBusFactor(module_path)

SpecExpertStore == ExpertStoreInit /\ [][ExpertStoreNext]_vars

\* developers with a score of at least the threshold on a file whose path
\* begins with the module path
ExpertsOfModule(module_path) ==
    { developer \in {DevA, DevB} :
        \E f \in DOMAIN by_file :
            /\ StartsWith(f, module_path)
            /\ \E i \in DOMAIN by_file[f] :
                  /\ by_file[f][i].developer = developer
                  /\ by_file[f][i].total_score >= DefaultExpertThreshold }

\* C21: the bus factor of a module is the number of distinct developers whose
\* score is at least the expert threshold on some file whose path begins with
\* the module path
C21_BusFactorCountsExpertsOfModule ==
    last.op = "get_bus_factor" =>
        last.bus_factor = Cardinality(ExpertsOfModule(last.module_path))

\* the bus factor of src/ asked while two developers are above the threshold
\* on src/a.py
C21_Witness ==
    /\ last.op = "get_bus_factor"
    /\ last.module_path = ModuleSrc
    /\ last.bus_factor = 2
    /\ Cardinality(ExpertsOfModule(ModuleSrc)) = 2

\* scores in non-increasing total_score order
IsSortedByScore(scores) ==
    \A i, j \in DOMAIN scores : i < j => scores[i].total_score >= scores[j].total_score

\* at most one score per developer
OnePerDeveloper(scores) ==
    \A i, j \in DOMAIN scores : scores[i].developer = scores[j].developer => i = j

\* C22: every store_expertise call leaves exactly the stored score for its
\* developer and file and no other developer's score changed, so the store
\* holds the most recently stored score per developer and file; and
\* get_experts_for_file returns the first `limit` of them, in non-increasing
\* total_score order with at most one score per developer
C22_ExpertsSortedOnePerDeveloperLatest ==
    [][ /\ last'.op = "store_expertise" =>
              LET score == last'.score
                  before == ScoresOf(by_file, score.target_path)
                  after == ScoresOf(by_file', score.target_path)
              IN  /\ \A i \in DOMAIN after :
                        after[i].developer = score.developer => after[i] = score
                  /\ \E i \in DOMAIN after : after[i] = score
                  /\ {s \in Range(after) : s.developer # score.developer}
                         = {s \in Range(before) : s.developer # score.developer}
                  /\ OnePerDeveloper(after)
                  /\ IsSortedByScore(after)
                  /\ \A f \in DOMAIN by_file : f # score.target_path => by_file'[f] = by_file[f]
        /\ last'.op = "get_experts_for_file" =>
              LET all == ScoresOf(by_file', last'.file_path)
              IN  /\ IsSortedByScore(last'.experts)
                  /\ OnePerDeveloper(last'.experts)
                  /\ Len(last'.experts) = Min(last'.limit, Len(all))
                  /\ last'.experts = SubSeq(all, 1, Len(last'.experts)) ]_vars

\* a developer's score for a file was stored a second time, lower than
\* before, and the query returns one score per developer with the new one last
C22_Witness ==
    /\ last.op = "get_experts_for_file"
    /\ last.limit = 2
    /\ Len(last.experts) = 2
    /\ last.experts[1].developer = DevB
    /\ last.experts[1].total_score = DefaultExpertThreshold
    /\ last.experts[2].developer = DevA
    /\ last.experts[2].total_score = DefaultExpertThreshold \div 2

\* ------------------------------------------------------------------------
\* Smart Blame: the analyzer and the module-level analyzer singleton
\* ------------------------------------------------------------------------

MaxContributors == 6

\* author emails, in the order get_all_contributors meets them in the log
Emails ==
    <<"d1@example.com", "d2@example.com", "d3@example.com", "d4@example.com",
      "d5@example.com", "d6@example.com", "d7@example.com", "d8@example.com">>

\* git repositories on disk
RepoOne == <<"/", "a">>

RepoTwo == <<"/", "b">>

\* the commits of a file in a repository: FileSrcA of RepoOne has the history
\* held in commits_by_developer, every other file has no commits
RECURSIVE ConcatCommits(_, _)
ConcatCommits(by_developer, developers) ==
    IF developers = <<>> THEN <<>>
    ELSE by_developer[Head(developers)] \o ConcatCommits(by_developer, Tail(developers))

\* LocalGitProvider.get_all_contributors(file_path)
GetAllContributors(by_developer, repo_path, file_path) ==
    IF repo_path = RepoOne /\ file_path = FileSrcA
    THEN SelectSeq(Emails, LAMBDA e : e \in DOMAIN by_developer)
    ELSE <<>>

\* LocalGitProvider.get_commits_for_file(file_path)
GetCommitsForFile(by_developer, repo_path, file_path) ==
    ConcatCommits(by_developer, GetAllContributors(by_developer, repo_path, file_path))

\* the ExpertiseScore of calculate_expertise carries the file as target_path
WithTargetPath(scores, file_path) ==
    [i \in DOMAIN scores |-> [target_path |-> file_path] @@ scores[i]]

\* SmartBlameAnalyzer.analyze_file: the scores and the store afterwards
AnalyzeFile(an, calc, stored, by_developer, file_path) ==
    LET all_commits == GetCommitsForFile(by_developer, an.repo_path, file_path)
    IN  IF all_commits = <<>> THEN [scores |-> <<>>, stored |-> stored]
        ELSE (LET Stored(scores) ==
                      [scores |-> scores, stored |-> StoreExpertiseBatch(stored, scores)]
              IN  Stored(WithTargetPath(
                             CalculateMultiple(calc,
                                 GetAllContributors(by_developer, an.repo_path, file_path),
                                 by_developer, all_commits),
                             file_path)))

\* SmartBlameAnalyzer._calculate_bus_factor
CalculateBusFactor(an, scores) ==
    Len(SelectSeq(scores, LAMBDA s : s.total_score >= an.expert_confidence_threshold))

\* factors.get(name, 0)
FactorOr0(score, name) == IF name \in DOMAIN score.factors THEN score.factors[name] ELSE 0

\* SmartBlameAnalyzer._generate_recommendation_text, without the name
GenerateRecommendationText(score) ==
    IF FactorOr0(score, "architectural_changes") > 500000
    THEN "Ask them, they architected this module"
    ELSE IF FactorOr0(score, "refactor_depth") > 500000
    THEN "Ask them, they deeply refactored this code"
    ELSE IF FactorOr0(score, "bug_fixes") > 500000
    THEN "Ask them, they've fixed many bugs here"
    ELSE IF FactorOr0(score, "recency") > 700000
    THEN "Ask them, they recently worked on this"
    ELSE IF score.total_score > 600000
    THEN "Ask them, they're the primary expert on this code"
    ELSE "Ask them, they're the most knowledgeable about this code"

\* ExpertRecommendation; None is <<>>, raised names the exception that left
\* the call instead
ExpertRecommendation(target, primary_expert, score, secondary_experts, text, bus_factor) ==
    [target |-> target, primary_expert |-> primary_expert, score |-> score,
     secondary_experts |-> secondary_experts, recommendation_text |-> text,
     bus_factor |-> bus_factor, raised |-> "none"]

\* _build_recommendation that reads scores[0] before testing for no scores
BuildRecommendationUnguarded(an, target, scores) ==
    IF scores = <<>>
    THEN [target |-> target, primary_expert |-> <<>>, score |-> <<>>,
          secondary_experts |-> <<>>, recommendation_text |-> "", bus_factor |-> 0,
          raised |-> "IndexError"]
    ELSE ExpertRecommendation(target, <<scores[1].developer>>, <<scores[1]>>,
             [i \in 1..(Min(Len(scores), 4) - 1) |-> <<scores[i + 1].developer, scores[i + 1]>>],
             GenerateRecommendationText(scores[1]), CalculateBusFactor(an, scores))

\* SmartBlameAnalyzer._build_recommendation
BuildRecommendation(an, target, scores) ==
    IF scores = <<>>
    THEN ExpertRecommendation(target, <<>>, <<>>, <<>>, "No experts found for the target", 0)
    ELSE ExpertRecommendation(target, <<scores[1].developer>>, <<scores[1]>>,
             [i \in 1..(Min(Len(scores), 4) - 1) |-> <<scores[i + 1].developer, scores[i + 1]>>],
             GenerateRecommendationText(scores[1]), CalculateBusFactor(an, scores))

\* identify_expert once analyze_file returned
Recomputed(an, target, analysed) ==
    [recommendation |-> BuildRecommendation(an, target, analysed.scores),
     cached |-> FALSE, stored |-> analysed.stored]

\* identify_expert once the store was asked for the cached experts
AfterCacheLookup(an, calc, stored, by_developer, target, refresh, cached_experts) ==
    IF ~refresh /\ cached_experts # <<>>
    THEN [recommendation |-> BuildRecommendation(an, target, cached_experts),
          cached |-> TRUE, stored |-> stored]
    ELSE Recomputed(an, target, AnalyzeFile(an, calc, stored, by_developer, target))

\* SmartBlameAnalyzer.identify_expert: the recommendation, whether it came
\* from the store, and the store afterwards
IdentifyExpert(an, calc, stored, by_developer, target, refresh) ==
    AfterCacheLookup(an, calc, stored, by_developer, target, refresh,
                     GetExpertsForFile(stored, target, 5))

\* create_analyzer(repo_path, config): the analyzer, or the ValueError of
\* LocalGitProvider for a path that is no git repository
CreateAnalyzer(repo_path, threshold) ==
    IF AbsPath(repo_path) = NoRepoDir THEN [analyzer |-> <<>>, raised |-> "ValueError"]
    ELSE [analyzer |-> <<[repo_path |-> AbsPath(repo_path),
                          expert_confidence_threshold |-> threshold]>>,
          raised |-> "none"]

\* smart_git.get_analyzer: the global afterwards; repo_path None is <<>>
GetAnalyzer(current, repo_path) ==
    IF current = <<>>
    THEN CreateAnalyzer(IF repo_path # <<>> THEN repo_path ELSE Cwd, DefaultExpertThreshold)
    ELSE [analyzer |-> current, raised |-> "none"]

\* ------------------------------------------------------------------------
\* The analyzer specification: expertise requests against one repository
\* whose history does not change
\* ------------------------------------------------------------------------

\* a reviewed hundred-line bug fix made today
BugFixToday == CommitAnalysis("bug_fix", 60, 40, 0, <<"r">>)

\* the history of FileSrcA: n contributors with one bug fix each, the first
\* of them with `lead` bug fixes
FileHistory(n, lead) ==
    [e \in {Emails[i] : i \in 1..n} |->
        IF e = Emails[1] THEN [k \in 1..lead |-> BugFixToday] ELSE <<BugFixToday>>]

\* expert thresholds a configuration may set
Thresholds == {DefaultExpertThreshold, DefaultExpertThreshold \div 3}

\* create_analyzer(RepoOne, config)
AnalyzerInit ==
    /\ EmptyGraph
    /\ NoExtractor
    /\ NoGovernance
    /\ NoGitRisk
    /\ NoParser
    /\ calculator = NewCalculator(<<>>, <<>>).calculator
    /\ by_file = EmptyDict
    /\ \E threshold \in Thresholds :
          blame_analyzer = CreateAnalyzer(RepoOne, threshold).analyzer
    /\ \E n \in 0..MaxContributors, lead \in 1..MaxPerKind :
          commits_by_developer = FileHistory(n, lead)
    /\ last = [op |-> "none"]

\* analyzer.identify_expert(target, refresh); `previous` is the target of the
\* request served just before it
CallIdentifyExpert(target, refresh) ==
    /\ blame_analyzer # <<>>
    /\ \E r \in {IdentifyExpert(blame_analyzer[1], calculator, by_file, commits_by_developer,
                                target, refresh)} :
          /\ by_file' = r.stored
          /\ last' = [op |-> "identify_expert", target |-> target, refresh |-> refresh,
                      cached |-> r.cached, recommendation |-> r.recommendation,
                      previous |-> IF last.op = "identify_expert" THEN <<last.target>> ELSE <<>>]
    /\ UNCHANGED <<graphVars, extractVars, parserVars, govVars, riskVars, calculator,
                   commits_by_developer, blame_analyzer>>

AnalyzerNext ==
    \E target \in StoredFiles, refresh \in BOOLEAN : CallIdentifyExpert(target, refresh)

SpecAnalyzer == AnalyzerInit /\ [][AnalyzerNext]_vars

\* C23: identify_expert for a file with zero commits returns no primary
\* expert, no secondary experts, bus factor 0 and a non-empty text, without
\* raising, on the first and on every repeated request
C23_NoCommitsGivesEmptyRecommendation ==
    (/\ last.op = "identify_expert"
     /\ GetCommitsForFile(commits_by_developer, blame_analyzer[1].repo_path, last.target) = <<>>)
    => /\ last.recommendation.raised = "none"
       /\ last.recommendation.primary_expert = <<>>
       /\ last.recommendation.secondary_experts = <<>>
       /\ last.recommendation.bus_factor = 0
       /\ last.recommendation.recommendation_text # ""

\* a repeated request for lib/src/b.py, which has no commits, after another
\* file was analysed and stored
C23_Witness ==
    /\ last.op = "identify_expert"
    /\ last.target = FileLibB
    /\ last.previous = <<FileLibB>>
    /\ FileSrcA \in DOMAIN by_file
    /\ last.recommendation.primary_expert = <<>>
    /\ last.recommendation.bus_factor = 0

\* C29: with unchanged history and store, identify_expert answered from the
\* store gives the same primary expert, secondary experts and bus factor as
\* the recomputation
C29_CachedAnswerEqualsRecomputed ==
    (last.op = "identify_expert" /\ last.cached) =>
        LET fresh == IdentifyExpert(blame_analyzer[1], calculator, by_file,
                                    commits_by_developer, last.target, TRUE).recommendation
        IN  /\ last.recommendation.primary_expert = fresh.primary_expert
            /\ last.recommendation.secondary_experts = fresh.secondary_experts
            /\ last.recommendation.bus_factor = fresh.bus_factor

\* a request answered from the store for a file with three contributors
C29_Witness ==
    /\ last.op = "identify_expert"
    /\ last.cached
    /\ Len(by_file[last.target]) = 3
    /\ last.recommendation.primary_expert = <<Emails[1]>>
    /\ Len(last.recommendation.secondary_experts) = 2

\* ------------------------------------------------------------------------
\* The smart_git specification: the module-level analyzer
\* ------------------------------------------------------------------------

\* repo_path arguments: None, two repositories and a directory outside git
BlameRepoPathArgs == {<<>>, RepoOne, RepoTwo, NoRepoDir}

\* the module is imported: no analyzer yet
SmartGitInit ==
    /\ EmptyGraph
    /\ NoExtractor
    /\ NoGovernance
    /\ NoGitRisk
    /\ NoParser
    /\ calculator = [present |-> FALSE]
    /\ by_file = EmptyDict
    /\ blame_analyzer = <<>>
    /\ \E n \in 1..2, lead \in 1..MaxPerKind : commits_by_developer = FileHistory(n, lead)
    /\ last = [op |-> "none"]

\* the calculator and store that come and go with the analyzer
AnalyzerParts(got) ==
    /\ blame_analyzer' = got.analyzer
    /\ calculator' = IF got.analyzer = <<>> THEN [present |-> FALSE]
                     ELSE IF blame_analyzer = <<>> THEN NewCalculator(<<>>, <<>>).calculator
                     ELSE calculator

\* smart_git.get_analyzer(repo_path)
CallGetAnalyzer(repo_path) ==
    /\ \E got \in {GetAnalyzer(blame_analyzer, repo_path)} :
          /\ AnalyzerParts(got)
          /\ last' = [op |-> "get_analyzer", repo_path |-> repo_path, raised |-> got.raised,
                      returned |-> IF got.analyzer = <<>> THEN <<>>
                                   ELSE got.analyzer[1].repo_path]
    /\ UNCHANGED <<graphVars, extractVars, parserVars, govVars, riskVars, commits_by_developer, by_file>>

\* smart_git.reset_analyzer()
ResetAnalyzer ==
    /\ blame_analyzer' = <<>>
    /\ calculator' = [present |-> FALSE]
    /\ by_file' = EmptyDict
    /\ last' = [op |-> "reset_analyzer"]
    /\ UNCHANGED <<graphVars, extractVars, parserVars, govVars, riskVars, commits_by_developer>>

\* smart_git.get_git_blame(file_path, repo_path)
GetGitBlame(file_path, repo_path) ==
    /\ \E got \in {GetAnalyzer(blame_analyzer, repo_path)} :
          /\ AnalyzerParts(got)
          /\ IF got.raised # "none"
             THEN /\ last' = [op |-> "get_git_blame", file_path |-> file_path,
                              repo_path |-> repo_path, raised |-> got.raised]
                  /\ UNCHANGED by_file
             ELSE \E r \in {IdentifyExpert(got.analyzer[1], calculator', by_file,
                                            commits_by_developer, file_path, FALSE)} :
                     /\ by_file' = r.stored
                     /\ last' = [op |-> "get_git_blame", file_path |-> file_path,
                                 repo_path |-> repo_path, raised |-> "none",
                                 analysed |-> got.analyzer[1].repo_path,
                                 recommendation |-> r.recommendation]
    /\ UNCHANGED <<graphVars, extractVars, parserVars, govVars, riskVars, commits_by_developer>>

SmartGitNext ==
    \/ \E repo_path \in BlameRepoPathArgs : CallGetAnalyzer(repo_path)
    \/ ResetAnalyzer
    \/ \E file_path \in StoredFiles, repo_path \in BlameRepoPathArgs :
          GetGitBlame(file_path, repo_path)

SpecSmartGit == SmartGitInit /\ [][SmartGitNext]_vars

\* C30: the analyzer returned by get_analyzer(repo_path = R) analyses
\* repository R, whatever calls came before
C30_AnalyzerIsForRequestedRepository ==
    (last.op = "get_analyzer" /\ last.repo_path # <<>> /\ last.raised = "none")
        => last.returned = AbsPath(last.repo_path)

\* get_analyzer(RepoTwo) after reset_analyzer returns an analyzer of RepoTwo
C30_Witness ==
    /\ last.op = "get_analyzer"
    /\ last.repo_path = RepoTwo
    /\ last.returned = RepoTwo

\* ------------------------------------------------------------------------
\* The parser: tree-sitter syntax trees, extract_function, parse_file
\* ------------------------------------------------------------------------

\* statements in the body of the function of a.py
MaxStmts == 2

\* a tree-sitter node: its type, the field name under which its parent holds
\* it ("" when none), its text (kept for identifiers only), its start row and
\* its children
Node(type, field, text, row, children) ==
    [type |-> type, field |-> field, text |-> text, row |-> row, children |-> children]

Leaf(type, field, text) == Node(type, field, text, 0, <<>>)

\* node.child_by_field_name(name): None is <<>>, a found child is <<child>>
ChildByFieldName(n, name) ==
    LET found == SelectSeq(n.children, LAMBDA c : c.field = name)
    IN  IF found = <<>> THEN <<>> ELSE <<found[1]>>

decision_types ==
    {"if_statement", "elif_clause", "for_statement", "while_statement", "except_clause",
     "with_statement", "assert_statement", "conditional_expression", "list_comprehension",
     "dictionary_comprehension", "set_comprehension", "generator_expression"}

\* traverse(n): what the node itself adds before the recursion into its children
DecisionCount(n) ==
    (IF n.type \in decision_types THEN 1 ELSE 0)
    + (IF n.type = "boolean_operator" THEN 1 ELSE 0)
    + (IF n.type = "if_clause" THEN 1 ELSE 0)

RECURSIVE Traverse(_)
RECURSIVE TraverseChildren(_)
\* traverse(n) of calculate_cyclomatic_complexity: every child is visited
Traverse(n) == DecisionCount(n) + TraverseChildren(n.children)

TraverseChildren(children) ==
    IF children = <<>> THEN 0
    ELSE Traverse(Head(children)) + TraverseChildren(Tail(children))

\* calculate_cyclomatic_complexity(node)
CalculateCyclomaticComplexity(node) ==
    LET body_node == ChildByFieldName(node, "body")
    IN  IF body_node # <<>> THEN 1 + Traverse(body_node[1]) ELSE 1

RECURSIVE FindCalls(_)
RECURSIVE FindCallsIn(_)
\* find_calls(node): the text of the `function` child of a call node, then
\* the calls of every child
FindCalls(node) ==
    LET function_node == ChildByFieldName(node, "function")
    IN  (IF node.type = "call" /\ function_node # <<>>
         THEN <<function_node[1].text>> ELSE <<>>)
        \o FindCallsIn(node.children)

FindCallsIn(children) ==
    IF children = <<>> THEN <<>>
    ELSE FindCalls(Head(children)) \o FindCallsIn(Tail(children))

\* the text of the non-"@" children of the decorator children, before any "("
RECURSIVE DecoratorNames(_)
DecoratorNames(children) ==
    IF children = <<>> THEN <<>>
    ELSE (IF Head(children).type = "decorator"
          THEN LET named == SelectSeq(Head(children).children, LAMBDA c : c.type # "@")
               IN  [i \in DOMAIN named |-> Before(named[i].text, <<"(">>)]
          ELSE <<>>)
         \o DecoratorNames(Tail(children))

\* extract_decorators(node), given node.parent
ExtractDecorators(parent) ==
    IF parent.type = "decorated_definition" THEN DecoratorNames(parent.children) ELSE <<>>

\* extract_function(node, file_path, parent_class): the fields of the
\* FunctionEntity that later stages read, and its cyclomatic complexity
ExtractFunctionNode(node, parent, file_path, parent_class) ==
    LET name_node == ChildByFieldName(node, "name")
        body_node == ChildByFieldName(node, "body")
    IN  [cyclomatic_complexity |-> CalculateCyclomaticComplexity(node)]
        @@ FunctionEntity(
               IF name_node # <<>> THEN name_node[1].text
               ELSE <<"u", "n", "k", "n", "o", "w", "n">>,
               file_path, parent_class,
               IF body_node # <<>> THEN FindCalls(body_node[1]) ELSE <<>>,
               ExtractDecorators(parent), node.row + 1)

FunctionTypes == {"function_definition", "async_function_definition"}

\* parse_file: the node behind a decorated_definition, else the child itself
ActualNode(child) ==
    LET defs == SelectSeq(child.children,
                          LAMBDA c : c.type \in FunctionTypes \cup {"class_definition"})
    IN  IF child.type = "decorated_definition" /\ defs # <<>> THEN defs[1] ELSE child

\* parse_file: the loop over the top-level nodes (the files parsed here hold
\* functions, expression statements and ERROR nodes at the top level: a node
\* that is none of the types the loop tests is passed over)
RECURSIVE TopLevelFunctions(_, _, _)
TopLevelFunctions(root, children, file_path) ==
    IF children = <<>> THEN <<>>
    ELSE LET child == Head(children)
             actual_node == ActualNode(child)
         IN  (IF actual_node.type \in FunctionTypes
              THEN <<ExtractFunctionNode(actual_node,
                                         IF actual_node = child THEN root ELSE child,
                                         file_path, <<>>)>>
              ELSE <<>>)
             \o TopLevelFunctions(root, Tail(children), file_path)

\* a ParsedFile with its parse status
ParsedFileStatus(pf, parse_success, parse_errors) ==
    [parse_success |-> parse_success, parse_errors |-> parse_errors] @@ pf

\* parse_file(file_path): open() raising gives the failed ParsedFile; any
\* text that could be read is handed to tree-sitter, whose tree is walked
ParseFile(source) ==
    IF ~source.readable
    THEN ParsedFileStatus(ParsedFile(source.file_path, <<>>, <<>>, <<>>), FALSE,
                          <<source.error>>)
    ELSE ParsedFileStatus(
             ParsedFile(source.file_path,
                        TopLevelFunctions(source.root, source.root.children,
                                          source.file_path),
                        <<>>, <<>>),
             TRUE, <<>>)

\* scan_repository(path): parse_file for every .py file, in os.walk's order
ScanRepository(srcs) == [i \in DOMAIN srcs |-> ParseFile(srcs[i])]

\* ------------------------------------------------------------------------
\* RelationshipExtractor.extract_all
\* ------------------------------------------------------------------------

\* a ClassEntity with the names of its methods
ClassEntityWithMethods(name, file_path, bases, methods, start_line) ==
    [methods |-> methods] @@ ClassEntity(name, file_path, bases, start_line)

\* _extract_containment: the top-level functions, then the classes
ExtractContainment(pf) ==
    LET top == SelectSeq(pf.functions, LAMBDA f : f.parent_class = <<>>)
    IN  [i \in DOMAIN top |->
            ExtractedRelationship(pf.file_path, UniqueId(top[i]), "CONTAINS", 1000, "")]
        \o [i \in DOMAIN pf.classes |->
               ExtractedRelationship(pf.file_path, UniqueId(pf.classes[i]), "CONTAINS",
                                     1000, "")]

\* _extract_class_relationships: the loop over cls.bases
InheritanceRelationship(reg, cls, base) ==
    LET base_entities == FindByName(reg, base)
        base_id == IF base_entities # <<>> THEN UniqueId(base_entities[1]) ELSE base
        implements == \/ base \in {<<"A", "B", "C">>, <<"P", "r", "o", "t", "o", "c", "o", "l">>}
                      \/ EndsWith(base, <<"P", "r", "o", "t", "o", "c", "o", "l">>)
    IN  ExtractedRelationship(UniqueId(cls), base_id,
                              IF implements THEN "IMPLEMENTS" ELSE "INHERITS", 1000, "")

\* _extract_overrides: the methods of one base class that cls defines too
\* (the code walks a set; they are given here in the order of cls.methods)
OverridesOfBase(reg, cls, file_path, base_name) ==
    IF base_name \notin DOMAIN reg.classes THEN <<>>
    ELSE LET base_cls == reg.classes[base_name]
             overridden ==
                 SelectSeq(cls.methods,
                           LAMBDA m : /\ m \in Range(base_cls.methods)
                                      /\ ~(StartsWith(m, <<"_">>) /\ ~StartsWith(m, <<"_", "_">>)))
         IN  [i \in DOMAIN overridden |->
                 ExtractedRelationship(
                     file_path \o <<":">> \o cls.name \o <<".">> \o overridden[i],
                     base_cls.file_path \o <<":">> \o base_name \o <<".">> \o overridden[i],
                     "OVERRIDES", 1000, "")]

RECURSIVE ExtractOverrides(_, _, _, _)
ExtractOverrides(reg, cls, file_path, bases) ==
    IF bases = <<>> THEN <<>>
    ELSE OverridesOfBase(reg, cls, file_path, Head(bases))
         \o ExtractOverrides(reg, cls, file_path, Tail(bases))

\* _extract_class_relationships(cls, file_path)
ExtractClassRelationships(reg, cls, file_path) ==
    [i \in DOMAIN cls.bases |-> InheritanceRelationship(reg, cls, cls.bases[i])]
    \o [i \in DOMAIN cls.decorators |->
           ExtractedRelationship(cls.decorators[i], UniqueId(cls), "DECORATES", 1000, "")]
    \o ExtractOverrides(reg, cls, file_path, cls.bases)

RECURSIVE FunctionRelationshipsOf(_, _, _)
FunctionRelationshipsOf(reg, cache, functions) ==
    IF functions = <<>> THEN <<>>
    ELSE ExtractFunctionRelationships(reg, cache, Head(functions))
         \o FunctionRelationshipsOf(reg, cache, Tail(functions))

RECURSIVE ClassRelationshipsOf(_, _, _)
ClassRelationshipsOf(reg, classes, file_path) ==
    IF classes = <<>> THEN <<>>
    ELSE ExtractClassRelationships(reg, Head(classes), file_path)
         \o ClassRelationshipsOf(reg, Tail(classes), file_path)

\* extract_all: per file the containment, the imports (the first import
\* raises, see ExtractImportsOutcome), the global accesses (the parser never
\* fills reads_globals or writes_globals), the functions and the classes
RECURSIVE ExtractAllFrom(_, _, _, _)
ExtractAllFrom(reg, cache, pfs, emitted) ==
    IF pfs = <<>> THEN [raised |-> "none", relationships |-> emitted]
    ELSE IF ExtractImportsOutcome(Head(pfs)).raised # "none"
    THEN [raised |-> ExtractImportsOutcome(Head(pfs)).raised,
          relationships |-> emitted \o ExtractContainment(Head(pfs))]
    ELSE ExtractAllFrom(reg, cache, Tail(pfs),
                        emitted \o ExtractContainment(Head(pfs))
                                \o FunctionRelationshipsOf(reg, cache, Head(pfs).functions)
                                \o ClassRelationshipsOf(reg, Head(pfs).classes,
                                                        Head(pfs).file_path))

ExtractAll(reg, cache, pfs) == ExtractAllFrom(reg, cache, pfs, <<>>)

\* extract_relationships(parsed_files): RelationshipExtractor(parsed_files),
\* then extract_all()
CallExtractRelationships ==
    /\ parsed_files # <<>>
    /\ ~constructed
    /\ registry' = BuildRegistryFromParsedFiles(parsed_files)
    /\ import_cache' = SetImportsAll(EmptyDict, parsed_files)
    /\ constructed' = TRUE
    /\ \E out \in {ExtractAll(BuildRegistryFromParsedFiles(parsed_files),
                              SetImportsAll(EmptyDict, parsed_files), parsed_files)} :
          /\ graph' = out.relationships
          /\ last' = [op |-> "extract_relationships", raised |-> out.raised]
    /\ cursor' = Len(AllFunctions(parsed_files))
    /\ UNCHANGED <<serviceVars, graphVars, parsed_files>>

\* ------------------------------------------------------------------------
\* The super() specification: classes with methods, one of which calls super
\* ------------------------------------------------------------------------

ClassD == <<"D">>

MethodM == <<"m">>

MethodInit == <<"_", "_", "i", "n", "i", "t", "_", "_">>

MethodP == <<"_", "p">>

MethodNames == {MethodM, MethodInit, MethodP}

\* the methods class B defines
BaseMethodLists == {<<MethodM>>, <<MethodInit>>, <<MethodP>>, <<MethodM, MethodInit>>}

\* the declared bases of class D; C is the class of m.py
BaseLists == {<<ClassB>>, <<ClassB, ClassC>>, <<ClassC, ClassB>>}

\* the text of the function node of super().x() and of super(D, self).x()
SuperCallStrings(x) == {<<"s", "u", "p", "e", "r", "(", ")", ".">> \o x, <<"s", "u", "p", "e", "r", "(", "D", ",", " ", "s", "e", "l", "f", ")", ".">> \o x}

\* a.py: class B with its methods, class D(bases) with one method whose body
\* is the super call; find_calls also yields the inner call, "super"
SuperFileA(base_methods, bases, method, call) ==
    ParsedFile(FileA,
               [i \in DOMAIN base_methods |->
                   FunctionEntity(base_methods[i], FileA, ClassB, <<>>, <<>>, i + 1)]
               \o <<FunctionEntity(method, FileA, ClassD, <<call, <<"s", "u", "p", "e", "r">>>>, <<>>, 6)>>,
               <<ClassEntityWithMethods(ClassB, FileA, <<>>, base_methods, 1),
                 ClassEntityWithMethods(ClassD, FileA, bases, <<method>>, 5)>>,
               <<>>)

\* m.py: class C with the methods m and __init__
SuperFileM ==
    ParsedFile(FileM,
               <<FunctionEntity(MethodM, FileM, ClassC, <<>>, <<>>, 2),
                 FunctionEntity(MethodInit, FileM, ClassC, <<>>, <<>>, 3)>>,
               <<ClassEntityWithMethods(ClassC, FileM, <<>>, <<MethodM, MethodInit>>, 1)>>,
               <<>>)

SuperInit ==
    /\ EmptyGraph
    /\ \E base_methods \in BaseMethodLists, bases \in BaseLists, method \in MethodNames,
          x \in MethodNames :
          \E call \in SuperCallStrings(x) :
             parsed_files = <<SuperFileA(base_methods, bases, method, call), SuperFileM>>
    /\ registry = EmptyRegistry
    /\ import_cache = EmptyDict
    /\ graph = <<>>
    /\ constructed = FALSE
    /\ cursor = 0
    /\ NoServices
    /\ last = [op |-> "none"]

SuperNext == CallExtractRelationships

SpecSuper == SuperInit /\ [][SuperNext]_vars

\* the method a super call names: the text after the first ")." up to any
\* "(", and the constructor when the call names none
SuperCalledMethod(call) ==
    IF Contains(call, <<")", ".">>) THEN Before(After(call, <<")", ".">>), <<"(">>)
    ELSE MethodInit

\* the classes called `name` declared in the file of func
ClassesOfFunction(func) ==
    {cls \in UNION {Range(parsed_files[i].classes) : i \in DOMAIN parsed_files} :
        cls.file_path = func.file_path /\ cls.name = func.parent_class}

\* the methods called `name` that class `class_name` defines
MethodsDefinedOn(class_name, name) ==
    {f \in Range(AllFunctions(parsed_files)) : f.parent_class = class_name /\ f.name = name}

\* the example of the claim: B{m} and D(B){m calls super().m()} in a.py
SuperExample ==
    parsed_files[1] = SuperFileA(<<MethodM>>, <<ClassB>>, MethodM, <<"s", "u", "p", "e", "r", "(", ")", ".", "m">>)

SuperExampleEdges ==
    {ExtractedRelationship(FileA \o <<":", "D", ".", "m">>, FileA \o <<":", "B", ".", "m">>, "CALLS", 950, "super"),
     ExtractedRelationship(FileA \o <<":", "D">>, FileA \o <<":", "B">>, "INHERITS", 1000, ""),
     ExtractedRelationship(FileA \o <<":", "D", ".", "m">>, FileA \o <<":", "B", ".", "m">>, "OVERRIDES", 1000, "")}

\* C25: after extraction, every call string beginning with "super(" made from
\* a method of a class D whose first declared base class defines the called
\* method (the constructor for a bare super()) is resolved to that method with
\* resolution_type super and confidence 0.95 and gives the CALLS edge to it;
\* and for B{m}, D(B){m calls super().m()} the graph holds D.m CALLS B.m,
\* D INHERITS B and D.m OVERRIDES B.m
C25_SuperCallResolvesOnFirstBase ==
    last.op = "extract_relationships" =>
        /\ \A func \in Range(AllFunctions(parsed_files)) :
           \A call \in Range(func.calls) :
           \A cls \in ClassesOfFunction(func) :
              (StartsWith(call, <<"s", "u", "p", "e", "r", "(">>) /\ cls.bases # <<>>) =>
                  \A target \in MethodsDefinedOn(cls.bases[1], SuperCalledMethod(call)) :
                     /\ Resolve(registry, import_cache, call, func)
                            = ResolvedCall(call, UniqueId(target), "super", 950)
                     /\ ExtractedRelationship(UniqueId(func), UniqueId(target), "CALLS",
                                              950, "super") \in Range(graph)
        /\ SuperExample => SuperExampleEdges \subseteq Range(graph)

\* the example of the claim has been extracted, with its three edges
C25_Witness ==
    /\ last.op = "extract_relationships"
    /\ SuperExample
    /\ SuperExampleEdges \subseteq Range(graph)

\* ------------------------------------------------------------------------
\* The parser specification: scan_repository over a.py and s/b.py, then
\* extract_relationships over what it returned
\* ------------------------------------------------------------------------

NameH == <<"h">>

NameInner == <<"i", "n", "n", "e", "r">>

Identifier(field, text) == Leaf("identifier", field, text)

\* name(): an expression statement holding a call
StmtCall(name) ==
    Node("expression_statement", "", <<>>, 0,
         <<Node("call", "", <<>>, 0,
                <<Identifier("function", name), Leaf("argument_list", "arguments", <<>>)>>)>>)

Block(field, statements) == Node("block", field, <<>>, 0, statements)

\* if x: <statements>
StmtIf(statements) ==
    Node("if_statement", "", <<>>, 0,
         <<Identifier("condition", <<"x">>), Block("consequence", statements)>>)

\* def name(): <statements>
FunctionDefinition(name, row, statements) ==
    Node("function_definition", "", <<>>, row,
         <<Identifier("name", name), Leaf("parameters", "parameters", <<>>),
           Block("body", statements)>>)

\* the statements a body is made of: pass, g(), if x: pass, x and y, and a
\* nested definition  def inner(): if x: h()
Statements ==
    {Leaf("pass_statement", "", <<>>),
     StmtCall(NameG),
     StmtIf(<<Leaf("pass_statement", "", <<>>)>>),
     Node("expression_statement", "", <<>>, 0,
          <<Node("boolean_operator", "", <<>>, 0,
                 <<Identifier("left", <<"x">>), Identifier("right", <<"y">>)>>)>>),
     FunctionDefinition(NameInner, 1, <<StmtIf(<<StmtCall(NameH)>>)>>)}

Module(children) == Node("module", "", <<>>, 0, children)

\* a .py file of the repository: open() succeeds or raises with `error`, and
\* root is the tree tree-sitter builds from the text (it builds one for any
\* text, marking what it could not parse with ERROR nodes)
SourceFile(file_path, readable, error, root) ==
    [file_path |-> file_path, readable |-> readable, error |-> error, root |-> root]

\* a.py: def f(): <body>
SourcesA ==
    {SourceFile(FileA, TRUE, "", Module(<<FunctionDefinition(NameF, 0, body)>>)) :
        body \in SeqsUpTo(Statements, MaxStmts) \ {<<>>}}

\* s/b.py: unreadable; text that is no Python at all; a broken first line
\* followed by  def g(): f()
SourcesB ==
    {SourceFile(FileB, FALSE, "[Errno 13] Permission denied: 's/b.py'", Module(<<>>)),
     SourceFile(FileB, TRUE, "", Module(<<Leaf("ERROR", "", <<>>)>>)),
     SourceFile(FileB, TRUE, "",
                Module(<<Leaf("ERROR", "", <<>>),
                         FunctionDefinition(NameG, 2, <<StmtCall(NameF)>>)>>))}

ParserInit ==
    /\ EmptyGraph
    /\ NoExtractor
    /\ NoGovernance
    /\ NoGitRisk
    /\ NoBlame
    /\ \E a \in SourcesA : \E files \in {<<a>>} \cup UNION {{<<a, b>>, <<b, a>>} : b \in SourcesB} :
          sources = files
    /\ last = [op |-> "none"]

\* scan_repository(path)
CallScanRepository ==
    /\ parsed_files = <<>>
    /\ parsed_files' = ScanRepository(sources)
    /\ last' = [op |-> "scan_repository"]
    /\ UNCHANGED <<serviceVars, graphVars, registry, import_cache, graph, constructed, cursor>>

ParserNext ==
    \/ CallScanRepository
    \/ CallExtractRelationships

SpecParser == ParserInit /\ [][ParserNext]_vars

\* the function definitions at the top level of a tree, in source order
TopLevelDefinitions(root) == SelectSeq(root.children, LAMBDA c : c.type \in FunctionTypes)

RECURSIVE OwnDecisionPoints(_)
RECURSIVE OwnDecisionPointsIn(_)
\* the decision points below a node that are not inside a nested definition
OwnDecisionPoints(n) ==
    IF n.type \in FunctionTypes THEN 0
    ELSE DecisionCount(n) + OwnDecisionPointsIn(n.children)

OwnDecisionPointsIn(children) ==
    IF children = <<>> THEN 0
    ELSE OwnDecisionPoints(Head(children)) + OwnDecisionPointsIn(Tail(children))

RECURSIVE OwnCalls(_)
RECURSIVE OwnCallsIn(_)
\* the call expressions below a node that are not inside a nested definition
OwnCalls(n) ==
    IF n.type \in FunctionTypes THEN <<>>
    ELSE (IF n.type = "call" /\ ChildByFieldName(n, "function") # <<>>
          THEN <<ChildByFieldName(n, "function")[1].text>> ELSE <<>>)
         \o OwnCallsIn(n.children)

OwnCallsIn(children) ==
    IF children = <<>> THEN <<>>
    ELSE OwnCalls(Head(children)) \o OwnCallsIn(Tail(children))

RECURSIVE HasNestedDefinition(_)
HasNestedDefinition(n) ==
    \E i \in DOMAIN n.children :
        n.children[i].type \in FunctionTypes \/ HasNestedDefinition(n.children[i])

BodyOf(definition) == ChildByFieldName(definition, "body")[1]

\* C24: once the repository is scanned, the cyclomatic complexity of every
\* parsed function is 1 plus the decision points of its own body and its
\* calls[] are the call expressions of its own body, nothing inside a nested
\* function definition being counted; so a function without decision points
\* of its own has complexity exactly 1
C24_NestedDefinitionsNotCounted ==
    parsed_files # <<>> =>
        \A i \in DOMAIN sources :
           sources[i].readable =>
              \A k \in DOMAIN TopLevelDefinitions(sources[i].root) :
                 LET body == BodyOf(TopLevelDefinitions(sources[i].root)[k])
                     func == parsed_files[i].functions[k]
                 IN  /\ func.cyclomatic_complexity = 1 + OwnDecisionPoints(body)
                     /\ func.calls = OwnCalls(body)
                     /\ OwnDecisionPoints(body) = 0 => func.cyclomatic_complexity = 1

\* a scanned function whose body holds a nested definition and a call of its own
C24_Witness ==
    /\ parsed_files # <<>>
    /\ \E i \in DOMAIN sources :
          /\ sources[i].file_path = FileA
          /\ HasNestedDefinition(BodyOf(TopLevelDefinitions(sources[i].root)[1]))
          /\ OwnCalls(BodyOf(TopLevelDefinitions(sources[i].root)[1])) = <<NameG>>
          /\ Len(parsed_files[i].functions) = 1

RECURSIVE HasError(_)
\* root_node.has_error: the tree holds an ERROR node
HasError(n) ==
    n.type = "ERROR" \/ \E i \in DOMAIN n.children : HasError(n.children[i])

\* open() raises for the file, or its text does not parse
Unparsable(source) == ~source.readable \/ HasError(source.root)

\* the relationship has the file, or an entity of the file, at one end
TouchesFile(rel, file_path) ==
    \/ rel.source = file_path \/ StartsWith(rel.source, file_path \o <<":">>)
    \/ rel.target = file_path \/ StartsWith(rel.target, file_path \o <<":">>)

\* C26: scan_repository returns one ParsedFile per .py file; an unreadable or
\* unparsable file gives one with parse_success false and a non-empty error
\* text, the registry and the extracted relationships hold nothing of that
\* file, and every other file is parsed as parse_file parses it alone and its
\* functions are registered
C26_BadFileIsSkippedNotFatal ==
    parsed_files # <<>> =>
        /\ Len(parsed_files) = Len(sources)
        /\ \A i \in DOMAIN sources :
              IF Unparsable(sources[i])
              THEN /\ parsed_files[i].parse_success = FALSE
                   /\ parsed_files[i].parse_errors # <<>>
                   /\ \A e \in Range(parsed_files[i].parse_errors) : e # ""
                   /\ constructed =>
                         /\ sources[i].file_path \notin DOMAIN registry.entities_by_file
                         /\ \A rel \in Range(graph) : ~TouchesFile(rel, sources[i].file_path)
              ELSE /\ parsed_files[i] = ParseFile(sources[i])
                   /\ parsed_files[i].parse_success = TRUE
                   /\ constructed =>
                         /\ last.raised = "none"
                         /\ \A f \in Range(parsed_files[i].functions) :
                               UniqueId(f) \in DOMAIN registry.entities_by_id

\* the pipeline has run over a repository with an unreadable file: its
\* ParsedFile is the failed one and the function of a.py is registered
C26_Witness ==
    /\ constructed
    /\ last.op = "extract_relationships"
    /\ \E i \in DOMAIN sources :
          /\ ~sources[i].readable
          /\ parsed_files[i].parse_success = FALSE
          /\ parsed_files[i].parse_errors # <<>>
    /\ FileA \o <<":">> \o NameF \in DOMAIN registry.entities_by_id

\* ------------------------------------------------------------------------
\* Direct and indirect callers of an impact assessment
\* ------------------------------------------------------------------------

\* C28: in every impact assessment calculate_blast_radius returns,
\* direct_callers and indirect_callers are disjoint and together are the
\* affected set (the transitive predecessors of the target, the target
\* removed), so their sizes add up to blast_radius, also for a target that
\* has a CALLS edge to itself
C28_CallersPartitionAffected ==
    (last.op = "calculate_blast_radius" /\ last.out.raised = "none") =>
        LET assessment == last.out.value
            all_affected == IF NxHasNode(last.target)
                            THEN CollectUpstream(last.target, {}) \ {last.target}
                            ELSE {}
        IN  /\ assessment.direct_callers \cap assessment.indirect_callers = {}
            /\ assessment.direct_callers \cup assessment.indirect_callers = all_affected
            /\ Cardinality(assessment.direct_callers)
                   + Cardinality(assessment.indirect_callers) = assessment.blast_radius

\* an assessment of a self-recursive target that has another caller too
C28_Witness ==
    /\ last.op = "calculate_blast_radius"
    /\ last.out.raised = "none"
    /\ NxHasEdge(last.target, last.target)
    /\ nxEdges[<<last.target, last.target>>].type = "CALLS"
    /\ last.out.value.blast_radius > 0

\* ------------------------------------------------------------------------
\* GET /graph/condensed
\* ------------------------------------------------------------------------

\* str.lstrip(chars)
RECURSIVE LStrip(_, _)
LStrip(s, chars) ==
    IF s # <<>> /\ Head(s) \in chars THEN LStrip(Tail(s), chars) ELSE s

\* _normalise_file_path
NormaliseFilePath(file_path) ==
    IF file_path = <<>> THEN <<>>
    ELSE LStrip(ReplaceChar(file_path, "\\", "/"), {".", "/"})

\* _directory_key
DirectoryKey(file_path) ==
    LET parts == SelectSeq(Split(NormaliseFilePath(file_path), "/"), LAMBDA part : part # <<>>)
    IN  IF Len(parts) = 0 THEN <<>>
        ELSE IF Len(parts) = 1 THEN <<"r", "o", "o", "t">>
        ELSE IF Len(parts) = 2 THEN parts[1]
        ELSE Join(SubSeq(parts, 1, 2), <<"/">>)

\* _risk_level_from_degree
RiskLevelFromDegree(total_degree) ==
    IF total_degree >= 8 THEN "CRITICAL"
    ELSE IF total_degree >= 5 THEN "HIGH"
    ELSE IF total_degree >= 2 THEN "MEDIUM"
    ELSE "LOW"

RiskOrder(level) ==
    CASE level = "LOW" -> 0 [] level = "MEDIUM" -> 1 [] level = "HIGH" -> 2
      [] level = "CRITICAL" -> 3

\* _highest_risk_level
HighestRiskLevel(levels) ==
    IF levels = {} THEN "LOW"
    ELSE CHOOSE l \in levels : \A m \in levels : RiskOrder(m) <= RiskOrder(l)

\* _collect_graph_nodes_and_edges: node["file"]. add_entity stores no
\* attributes on the store's node, so the merged dict is the raw entity with
\* that id, whose "file" build_dependency_graph also recorded as metadata; a
\* node that only an edge created has no raw entity and no file
NodeFile(node_id) ==
    IF node_id \in DOMAIN entity_metadata THEN entity_metadata[node_id].file ELSE <<>>

\* _collect_graph_nodes_and_edges: one edge per node and successor
AllEdges == {e \in DOMAIN nxEdges : e[1] \in nxNodes}

\* get_condensed_graph: hierarchy_node_ids, the nodes with a file path
HierarchyNodeIds == {n \in nxNodes : NormaliseFilePath(NodeFile(n)) # <<>>}

\* get_condensed_graph: node_file_map[node_id]
NodeFileKey(n) == NormaliseFilePath(NodeFile(n))

\* get_condensed_graph: the entry of entities_by_file for one node (complexity
\* and line come from fields of the raw entity that are not modelled)
CondensedEntity(n) ==
    LET degree == Cardinality({e \in AllEdges : e[1] = n})
                  + Cardinality({e \in AllEdges : e[2] = n})
    IN  [id |-> n, risk_level |-> RiskLevelFromDegree(degree), degree |-> degree]

\* get_condensed_graph: entities_by_file (each list holds every node once)
EntitiesByFile ==
    [file_key \in {NodeFileKey(n) : n \in HierarchyNodeIds} |->
        {CondensedEntity(n) : n \in {m \in HierarchyNodeIds : NodeFileKey(m) = file_key}}]

\* get_condensed_graph: file_nodes[file_key]
FileNode(file_key, entities) ==
    [id |-> file_key, type |-> "file",
     label |-> Split(file_key, "/")[Len(Split(file_key, "/"))],
     directory |-> DirectoryKey(file_key),
     entity_count |-> Cardinality(entities),
     risk_level |-> HighestRiskLevel({entity.risk_level : entity \in entities})]

\* get_condensed_graph: the edge counts between different files (by `key`)
EdgeCounts(edges, key(_)) ==
    [pair \in {<<key(e[1]), key(e[2])>> : e \in {d \in edges : key(d[1]) # key(d[2])}} |->
        Cardinality({e \in edges : <<key(e[1]), key(e[2])>> = pair})]

NodeDirectoryKey(n) == DirectoryKey(NodeFileKey(n))

\* get_condensed_graph: directory_nodes
DirectoryNode(directory, directory_files) ==
    [id |-> directory, type |-> "directory",
     file_count |-> Cardinality(directory_files),
     entity_count |-> SumOver([f \in directory_files |-> f.entity_count], directory_files),
     risk_level |-> HighestRiskLevel({f.risk_level : f \in directory_files})]

\* get_condensed_graph: the response, given entities_by_file and entity_edges
CondensedResponse(entities_by_file, entity_edges) ==
    LET file_nodes == {FileNode(f, entities_by_file[f]) : f \in DOMAIN entities_by_file}
        files_by_directory ==
            [directory \in {f.directory : f \in file_nodes} |->
                {f \in file_nodes : f.directory = directory}]
    IN  [directory_nodes |->
             {DirectoryNode(d, files_by_directory[d]) : d \in DOMAIN files_by_directory},
         directory_edges |-> EdgeCounts(entity_edges, NodeDirectoryKey),
         files_by_directory |-> files_by_directory,
         file_edges |-> EdgeCounts(entity_edges, NodeFileKey),
         entities_by_file |-> entities_by_file,
         entity_edges |-> entity_edges]

\* mutant: the entity edges are not filtered by hierarchy_node_ids
GetCondensedGraphAllEdges == CondensedResponse(EntitiesByFile, AllEdges)

\* get_condensed_graph()
GetCondensedGraph ==
    CondensedResponse(EntitiesByFile,
                      {e \in AllEdges : e[1] \in HierarchyNodeIds /\ e[2] \in HierarchyNodeIds})

\* the "file" of the raw entities: a Windows-style relative path, a path
\* below s/ and a file of the repository root
EntityFiles == {<<".", "\\", "s", "\\", "a", ".", "p", "y">>, FileB, FileA}

\* CodeGraph.add_entity for a raw entity whose "file" is `file`; as in
\* build_dependency_graph, entities are added before any relationship
AddEntityOfFile(entity_id, file) ==
    /\ relationships = <<>>
    /\ entity_id \notin DOMAIN entity_metadata
    /\ nxNodes' = NxAddNode(nxNodes, entity_id)
    /\ nepV' = NepAddNode(nepV, entity_id)
    /\ entity_metadata' =
           [e \in (DOMAIN entity_metadata) \cup {entity_id} |->
               IF e = entity_id THEN [file |-> file] ELSE entity_metadata[e]]
    /\ last' = [op |-> "none"]
    /\ UNCHANGED <<nxEdges, nepE, relationships, git_risk>>
    /\ UNCHANGED <<extractVars, serviceVars>>

\* GET /graph/condensed
CallGetCondensedGraph ==
    /\ last' = [op |-> "get_condensed_graph", out |-> GetCondensedGraph]
    /\ UNCHANGED <<graphVars, extractVars, serviceVars>>

CondensedNext ==
    \/ \E e \in GraphIds, file \in EntityFiles : AddEntityOfFile(e, file)
    \/ \E s \in GraphIds, t \in GraphIds : AddRelationship(Relationship(s, t, "CALLS"))
    \/ CallGetCondensedGraph

SpecCondensed == GraphInit /\ [][CondensedNext]_vars

\* the ids of the entities listed in entities_by_file
ListedEntityIds(out) ==
    UNION {{entity.id : entity \in out.entities_by_file[f]} : f \in DOMAIN out.entities_by_file}

\* C27: in the condensed graph every entity_edges endpoint is an entity
\* listed in entities_by_file, a node without a file path is listed nowhere
\* and there is no empty file key, and the entity_count of every file node is
\* the number of entities listed for that file
C27_CondensedGraphIsConsistent ==
    last.op = "get_condensed_graph" =>
        /\ \A e \in last.out.entity_edges :
              e[1] \in ListedEntityIds(last.out) /\ e[2] \in ListedEntityIds(last.out)
        /\ \A n \in nxNodes : NodeFile(n) = <<>> => n \notin ListedEntityIds(last.out)
        /\ <<>> \notin DOMAIN last.out.entities_by_file
        /\ \A d \in DOMAIN last.out.files_by_directory :
           \A file_node \in last.out.files_by_directory[d] :
              /\ file_node.id \in DOMAIN last.out.entities_by_file
              /\ file_node.entity_count
                     = Cardinality(last.out.entities_by_file[file_node.id])

\* a condensed graph of a store in which a node without a file path has an
\* edge to an entity of a file, next to an edge between two listed entities
C27_Witness ==
    /\ last.op = "get_condensed_graph"
    /\ last.out.entity_edges # {}
    /\ \E e \in AllEdges : NodeFile(e[1]) = <<>> /\ NodeFile(e[2]) # <<>>
    /\ \E f \in DOMAIN last.out.entities_by_file :
          Cardinality(last.out.entities_by_file[f]) = 2

====
